---- MODULE Spec2Model ----
(***************************************************************************)
(* Incremental synchronisation of a remote file store into a search index  *)
(* (Document / DocumentChunk collections): the index writer, the document  *)
(* store connector with its cursor store, and the sync engine.             *)
(*                                                                         *)
(* Modelling conventions                                                   *)
(*  - A text is the record [len, dots]: its length in characters and the   *)
(*    positions of its '.' characters.  The texts of the model hold no     *)
(*    white space, so str.strip() leaves every chunk as it is.             *)
(*  - sha256 is injective on the texts of the model: the hash of a         *)
(*    content is the content.                                              *)
(*  - A collection of the backend is a sequence of rows in the store's own *)
(*    stable order (insertion order); a fetch with limit n answers the     *)
(*    first n matching rows of that order.                                 *)
(*  - A backend call that fails is an input of the operation (a fault      *)
(*    record), chosen with \E by the action.                               *)
(***************************************************************************)
EXTENDS Integers, Sequences, FiniteSets, TLC

VARIABLES
    docs,        \* Document collection: rows [dropbox_id, content_hash]
    chunks,      \* DocumentChunk collection: parent id -> rows (run-length encoded)
    lastOp,      \* the last index writer call: arguments, faults, result
    calls,       \* number of index writer calls made directly
    remote,      \* the remote file store: item id -> text, or NoFile
    serverLog,   \* the remote change feed: every change so far, in order
    cursors,     \* the cursor store's entry for the watched path, or NoCursor
    expired,     \* whether the server answers "reset" for the stored cursor
    sync_state,  \* the persisted sync state: last_sync, total_indexed, history
    now,         \* the clock, in half days
    lastRun,     \* the last sync run: inputs, faults, statistics, outcome
    searchCall,  \* the last call made to the search orchestrator
    agentCall,   \* the last call made to the directory agent
    chunkCall,   \* the last call of chunk_text on its own
    _calls,      \* RateLimiter._calls: identifier -> timestamps of granted calls
    _lock,       \* RateLimiter._lock: the thread holding it, or Free
    thread,      \* each thread's position in is_allowed and its locals
    time,        \* time.time(), in seconds
    granted,     \* identifier -> the clock readings of the calls is_allowed granted
    feedRun      \* a sync run in progress: the generator's and the loop's position

idxVars == <<docs, chunks, lastOp, calls>>

syncVars == <<remote, serverLog, cursors, expired, sync_state, now, lastRun>>

searchVars == <<searchCall>>

agentVars == <<agentCall>>

chunkVars == <<chunkCall>>

limiterVars == <<_calls, _lock, thread, time, granted>>

feedVars == <<feedRun>>

vars == <<docs, chunks, lastOp, calls, remote, serverLog, cursors, expired,
          sync_state, now, lastRun, searchCall, agentCall, chunkCall,
          _calls, _lock, thread, time, granted, feedRun>>

----------------------------------------------------------------------------
(* Program constants *)

CHUNK_THRESHOLD == 500
CHUNK_SIZE == 1000
CHUNK_OVERLAP == 200
CONTENT_LIMIT == 50000
CHUNK_FETCH_LIMIT == 1000
WRITE_ATTEMPTS == 3
LIST_ATTEMPTS == 3
HISTORY_DAYS == 30
RESYNC_DAYS == 30

(* Bounds of the model *)

MaxCalls == 3
MaxLog == 2
MaxRuns == 3

----------------------------------------------------------------------------
(* Inputs *)

\* The files of the remote store; the index writer is driven with Ids.
FileItems == {"idA", "idB", "idP"}

Ids == {"idA", "idB"}

TShort == [len |-> 300, dots |-> {}]
TMid == [len |-> 1500, dots |-> {900}]
THuge == [len |-> 801000, dots |-> {}]

Texts == {TShort, TMid, THuge}

NoText == [len |-> 0, dots |-> {}]

Min2(a, b) == IF a < b THEN a ELSE b

MaxOf(S) == CHOOSE x \in S : \A y \in S : y <= x

----------------------------------------------------------------------------
(* Document transform: content, hash, chunking *)

Content(text) ==
    [len |-> Min2(text.len, CONTENT_LIMIT),
     dots |-> {d \in text.dots : d < CONTENT_LIMIT}]

ContentHash(content) == content

EmptyHash == NoText

RFind(text, lo, hi) ==
    LET S == {d \in text.dots : lo <= d /\ d < hi}
    IN  IF S = {} THEN -1 ELSE MaxOf(S)

\* A window cut at the last '.' wherever it lies in the window.
ChunkEnd_AnyDot(text, start, size) ==
    LET end0 == Min2(start + size, text.len)
        sentence_end == RFind(text, start, end0)
    IN  IF end0 < text.len /\ sentence_end > start
        THEN sentence_end + 1
        ELSE end0

ChunkEnd(text, start, size) ==
    LET end0 == Min2(start + size, text.len)
        sentence_end == RFind(text, start, end0)
    IN  IF end0 < text.len /\ sentence_end > start + (size \div 2)
        THEN sentence_end + 1
        ELSE end0

\* The loop of chunk_text, run for at most n iterations from `start`.
RECURSIVE ChunkFrom(_, _, _, _, _)
ChunkFrom(text, start, size, ov, n) ==
    IF n = 0 \/ start >= text.len THEN <<>>
    ELSE IF n = 1 THEN <<[from |-> start, to |-> ChunkEnd(text, start, size)]>>
    ELSE LET h == n \div 2
             left == ChunkFrom(text, start, size, ov, h)
             end == left[Len(left)].to
             next == IF end < text.len THEN end - ov ELSE text.len
         IN  left \o ChunkFrom(text, next, size, ov, n - h)

chunk_text(text, size, ov) == ChunkFrom(text, 0, size, ov, text.len)

\* chunk_text with the indexer's arguments, tabulated over the texts of the model.
Windows == [t \in Texts |-> chunk_text(t, CHUNK_SIZE, CHUNK_OVERLAP)]

----------------------------------------------------------------------------
(* Index writer *)

NoFault == [lookup |-> FALSE, delStop |-> -1, writeFails |-> 0, chunkFailAt |-> -1]

Faults ==
    [lookup : BOOLEAN, delStop : {-1, 0}, writeFails : {0, WRITE_ATTEMPTS},
     chunkFailAt : {-1, 1}]

FirstRow(rows, Match(_)) ==
    LET S == {i \in DOMAIN rows : Match(rows[i])}
    IN  IF S = {} THEN 0 ELSE CHOOSE i \in S : \A j \in S : i <= j

\* A lookup by source id alone, without the content-hash fallback.
_find_existing_document_ByIdOnly(d, dropbox_id, content_hash, fails) ==
    IF fails THEN 0
    ELSE LET ById(r) == r.dropbox_id = dropbox_id
         IN  FirstRow(d, ById)

_find_existing_document(d, dropbox_id, content_hash, fails) ==
    IF fails THEN 0
    ELSE LET ById(r) == r.dropbox_id = dropbox_id
             ByHash(r) == r.content_hash = content_hash
             byId == FirstRow(d, ById)
         IN  IF byId # 0 THEN byId ELSE FirstRow(d, ByHash)

\* The rows of one parent in the chunk collection are kept run-length encoded:
\* the run [src, total, lo, hi] stands for the rows with chunk_index lo..hi of
\* the chunk sequence of text src, in that order.
RunLen(run) == run.hi - run.lo + 1

RECURSIVE RowCount(_)
RowCount(runs) ==
    IF runs = <<>> THEN 0 ELSE RunLen(Head(runs)) + RowCount(Tail(runs))

RECURSIVE DropRows(_, _)
DropRows(runs, n) ==
    IF n = 0 \/ runs = <<>> THEN runs
    ELSE IF RunLen(Head(runs)) <= n
    THEN DropRows(Tail(runs), n - RunLen(Head(runs)))
    ELSE <<[Head(runs) EXCEPT !.lo = @ + n]>> \o Tail(runs)

_delete_document_chunks(c, dropbox_id, stop) ==
    LET rows == c[dropbox_id]
        fetched == Min2(RowCount(rows), CHUNK_FETCH_LIMIT)
        deleted == IF stop = -1 THEN fetched ELSE Min2(stop, fetched)
    IN  [c EXCEPT ![dropbox_id] = DropRows(rows, deleted)]

WithRetry(fails) == fails < WRITE_ATTEMPTS

_index_document_chunks(c, document, failAt) ==
    LET total == Len(Windows[document.text])
        written == IF failAt = -1 THEN total ELSE Min2(failAt, total)
    IN  IF written = 0 THEN c
        ELSE [c EXCEPT ![document.id] =
                 Append(@, [src |-> document.text, total |-> total,
                            lo |-> 0, hi |-> written - 1])]

index_document(d, c, document, f) ==
    LET content == Content(document.text)
        content_hash == ContentHash(content)
        existing == _find_existing_document(d, document.id, content_hash, f.lookup)
        c1 == IF existing # 0 THEN _delete_document_chunks(c, document.id, f.delStop)
              ELSE c
        row == [dropbox_id |-> document.id, content_hash |-> content_hash]
    IN  IF ~WithRetry(f.writeFails)
        THEN [docs |-> d, chunks |-> c1, ok |-> FALSE, existing |-> existing]
        ELSE LET d1 == IF existing # 0 THEN [d EXCEPT ![existing] = row]
                       ELSE Append(d, row)
                 c2 == IF content.len > CHUNK_THRESHOLD
                       THEN _index_document_chunks(c1, document, f.chunkFailAt)
                       ELSE c1
             IN  [docs |-> d1, chunks |-> c2, ok |-> TRUE, existing |-> existing]

RemoveAt(rows, i) == SubSeq(rows, 1, i - 1) \o SubSeq(rows, i + 1, Len(rows))

delete_document(d, c, dropbox_id, f) ==
    LET c1 == _delete_document_chunks(c, dropbox_id, f.delStop)
        existing == _find_existing_document(d, dropbox_id, EmptyHash, f.lookup)
    IN  IF existing = 0
        THEN [docs |-> d, chunks |-> c1, ok |-> TRUE, existing |-> 0]
        ELSE IF f.writeFails > 0
        THEN [docs |-> d, chunks |-> c1, ok |-> FALSE, existing |-> existing]
        ELSE [docs |-> RemoveAt(d, existing), chunks |-> c1, ok |-> TRUE,
              existing |-> existing]

document_exists(d, dropbox_id) ==
    _find_existing_document(d, dropbox_id, EmptyHash, FALSE) # 0

----------------------------------------------------------------------------
(* Remote file store and document store connector *)

NoFile == [len |-> -1, dots |-> {}]

NoCursor == -1

Folder == "idDir"

\* The order in which the remote store lists the items of the watched path.
ListingOrder == <<"idDir", "idA", "idB", "idP">>

\* Path(file_path).suffix.lower() of each item's path.
ExtOf == [idDir |-> "", idA |-> ".txt", idB |-> ".md", idP |-> ".png"]

_entry_to_dict(id, type) == [id |-> id, type |-> type, ext |-> ExtOf[id]]

_determine_change_type(type) ==
    CASE type = "deleted" -> "deleted"
      [] type = "file" -> "added_or_modified"
      [] type = "folder" -> "folder_change"
      [] OTHER -> "unknown"

Present(rem, id) == id = Folder \/ rem[id] # NoFile

\* The entries files_list_folder answers for the snapshot `rem`.
SnapshotEntries(rem) ==
    LET here == SelectSeq(ListingOrder, LAMBDA id : Present(rem, id))
    IN  [i \in DOMAIN here |->
            _entry_to_dict(here[i], IF here[i] = Folder THEN "folder" ELSE "file")]

\* tenacity's retry: the call is repeated until it answers or LIST_ATTEMPTS
\* attempts have failed, and then RetryError is raised in place of the
\* call's own exception.
Retried(failing) ==
    [attempts |-> Min2(failing + 1, LIST_ATTEMPTS),
     raised |-> IF failing >= LIST_ATTEMPTS THEN "RetryError" ELSE "none"]

\* _save_cursors: the cursor store after the write of `cursor`; a write that
\* fails is logged and leaves the store as it was.
_save_cursors(stored, cursor, fails) == IF fails THEN stored ELSE cursor

\* list_folder: yields the snapshot; a listing call that fails after lf.cut
\* entries ends the generator there and no cursor is saved.
list_folder(rem, log, cur, lf) ==
    LET all == SnapshotEntries(rem)
    IN  IF lf.cut = -1 \/ lf.cut >= Len(all)
        THEN [entries |-> all, cursor |-> _save_cursors(cur, Len(log), lf.saveFails)]
        ELSE [entries |-> SubSeq(all, 1, lf.cut), cursor |-> cur]

Tagged(entries) ==
    [i \in DOMAIN entries |->
        [id |-> entries[i].id, type |-> entries[i].type, ext |-> entries[i].ext,
         change_type |-> _determine_change_type(entries[i].type)]]

NoListFault == [contFails |-> 0, cut |-> -1, saveFails |-> FALSE]

\* contFails: failing attempts of the first files_list_folder_continue call;
\* cut: a later listing call fails after that many entries were yielded;
\* saveFails: the write of the cursor store fails.
ListFaults ==
    {NoListFault,
     [NoListFault EXCEPT !.contFails = LIST_ATTEMPTS],
     [NoListFault EXCEPT !.cut = 1],
     [NoListFault EXCEPT !.saveFails = TRUE]}

\* list_folder_changes.  cur: the stored cursor; exp: the server answers
\* "reset" for it; lf: the listing faults of this call.
list_folder_changes(rem, log, cur, exp, lf) ==
    IF cur = NoCursor
    THEN LET l == list_folder(rem, log, cur, lf)
         IN  [entries |-> l.entries, error |-> FALSE, cursor |-> l.cursor,
              continueCalls |-> 0, full |-> TRUE]
    ELSE LET r == Retried(IF exp THEN LIST_ATTEMPTS ELSE lf.contFails)
             feed == Tagged(SubSeq(log, cur + 1, Len(log)))
         IN  IF r.raised = "ApiError" /\ exp
             THEN LET l == list_folder(rem, log, NoCursor, lf)
                  IN  [entries |-> l.entries, error |-> FALSE, cursor |-> l.cursor,
                       continueCalls |-> r.attempts, full |-> TRUE]
             ELSE IF r.raised # "none"
             THEN [entries |-> <<>>, error |-> TRUE, cursor |-> cur,
                   continueCalls |-> r.attempts, full |-> FALSE]
             ELSE IF lf.cut # -1 /\ lf.cut < Len(feed)
             THEN [entries |-> SubSeq(feed, 1, lf.cut), error |-> TRUE, cursor |-> cur,
                   continueCalls |-> r.attempts, full |-> FALSE]
             ELSE [entries |-> feed, error |-> FALSE,
                   cursor |-> _save_cursors(cur, Len(log), lf.saveFails),
                   continueCalls |-> r.attempts, full |-> FALSE]

----------------------------------------------------------------------------
(* Sync engine *)

SUPPORTED_EXTENSIONS == {".pdf", ".txt", ".md", ".csv", ".doc", ".docx"}

_should_index_file(ext) == ext \in SUPPORTED_EXTENSIONS

\* The faults of one run: the backend and download calls made for the item
\* `bad` fail in the way `how`.
NoRunFault == [bad |-> "none", how |-> "none"]

FailureKinds == {"download", "transform", "index"}

RunFaults ==
    {NoRunFault} \cup
    [bad : {"idA"},
     how : FailureKinds \cup {"chunks", "lookup", "delete"}]

HowFor(rf, id) == IF id = rf.bad THEN rf.how ELSE "none"

IndexFault(how) ==
    [lookup |-> how = "lookup",
     delStop |-> IF how = "delete" THEN 0 ELSE -1,
     writeFails |-> IF how = "index" THEN WRITE_ATTEMPTS ELSE 0,
     chunkFailAt |-> IF how = "chunks" THEN 1 ELSE -1]

_process_and_index_file(d, c, entry, rem, rf) ==
    LET how == HowFor(rf, entry.id)
        content == rem[entry.id]
    IN  IF content = NoFile \/ content.len = 0 \/ how = "download"
        THEN [docs |-> d, chunks |-> c, ok |-> FALSE]
        ELSE IF how = "transform"
        THEN [docs |-> d, chunks |-> c, ok |-> FALSE]
        ELSE LET Outcome(r) == [docs |-> r.docs, chunks |-> r.chunks, ok |-> r.ok]
             IN  Outcome(index_document(d, c, [id |-> entry.id, text |-> content],
                                        IndexFault(how)))

_remove_from_index(d, c, entry, rf) ==
    delete_document(d, c, entry.id, IndexFault(HowFor(rf, entry.id)))

_file_exists_in_index(d, file_id, rf) ==
    IF HowFor(rf, file_id) = "lookup" THEN FALSE ELSE document_exists(d, file_id)

InitialStats ==
    [files_processed |-> 0, files_indexed |-> 0, files_failed |-> 0,
     folders_found |-> 0]

\* One iteration of the loop of perform_initial_sync.
\* A loop body that leaves a failed file out of files_failed.
InitialStep_FailureUncounted(acc, entry, rem, rf) ==
    IF entry.type = "folder"
    THEN [acc EXCEPT !.stats.folders_found = @ + 1]
    ELSE IF entry.type # "file" THEN acc
    ELSE IF ~_should_index_file(entry.ext) THEN acc
    ELSE LET r == _process_and_index_file(acc.docs, acc.chunks, entry, rem, rf)
         IN  [docs |-> r.docs, chunks |-> r.chunks,
              stats |-> [acc.stats EXCEPT
                  !.files_processed = @ + 1,
                  !.files_indexed = IF r.ok THEN @ + 1 ELSE @]]

InitialStep(acc, entry, rem, rf) ==
    IF entry.type = "folder"
    THEN [acc EXCEPT !.stats.folders_found = @ + 1]
    ELSE IF entry.type # "file" THEN acc
    ELSE IF ~_should_index_file(entry.ext) THEN acc
    ELSE LET Counted(r) ==
                 [docs |-> r.docs, chunks |-> r.chunks,
                  stats |-> [acc.stats EXCEPT
                      !.files_processed = @ + 1,
                      !.files_indexed = IF r.ok THEN @ + 1 ELSE @,
                      !.files_failed = IF r.ok THEN @ ELSE @ + 1]]
         IN  Counted(_process_and_index_file(acc.docs, acc.chunks, entry, rem, rf))

RECURSIVE InitialLoop(_, _, _, _)
InitialLoop(acc, entries, rem, rf) ==
    IF entries = <<>> THEN acc
    ELSE InitialLoop(InitialStep(acc, Head(entries), rem, rf), Tail(entries), rem, rf)

\* A save that leaves the state file as it was.
_save_sync_state_NotWritten(file, state) == file

_save_sync_state(file, state) == state

\* perform_initial_sync.  st: [docs, chunks, cursors, sync_state]; t: the
\* clock; rf, lf: the faults of the run.
perform_initial_sync(st, rem, log, t, rf, lf) ==
    LET Finished(l, acc) ==
            LET state == [last_sync |-> t,
                          total_indexed |-> acc.stats.files_indexed,
                          history |-> Append(st.sync_state.history,
                                             [started_at |-> t, run |-> "initial"])]
            IN  [docs |-> acc.docs, chunks |-> acc.chunks, cursors |-> l.cursor,
                 sync_state |-> _save_sync_state(st.sync_state, state),
                 stats |-> acc.stats, error |-> FALSE, seen |-> l.entries,
                 continueCalls |-> 0, full |-> TRUE]
        Listed(l) ==
            Finished(l, InitialLoop([docs |-> st.docs, chunks |-> st.chunks,
                                     stats |-> InitialStats], l.entries, rem, rf))
    IN  Listed(list_folder(rem, log, st.cursors, lf))

IncrementalStats ==
    [changes_processed |-> 0, files_added |-> 0, files_modified |-> 0,
     files_deleted |-> 0, files_failed |-> 0]

ChangeType(change) ==
    IF "change_type" \in DOMAIN change THEN change.change_type ELSE "unknown"

\* One iteration of the loop of perform_incremental_sync.
IncrementalStep(acc, change, rem, rf) ==
    LET change_type == ChangeType(change)
        Removed(r) ==
            [docs |-> r.docs, chunks |-> r.chunks,
             stats |-> [acc.stats EXCEPT !.files_deleted = @ + 1,
                                         !.changes_processed = @ + 1]]
        Counted(r, exists) ==
            [docs |-> r.docs, chunks |-> r.chunks,
             stats |-> [acc.stats EXCEPT
                 !.files_modified = IF r.ok /\ exists THEN @ + 1 ELSE @,
                 !.files_added = IF r.ok /\ ~exists THEN @ + 1 ELSE @,
                 !.files_failed = IF r.ok THEN @ ELSE @ + 1,
                 !.changes_processed = @ + 1]]
        Looked(r) == Counted(r, _file_exists_in_index(r.docs, change.id, rf))
    IN  IF change_type = "deleted"
        THEN Removed(_remove_from_index(acc.docs, acc.chunks, change, rf))
        ELSE IF change_type = "added_or_modified"
        THEN IF ~_should_index_file(change.ext) THEN acc
             ELSE Looked(_process_and_index_file(acc.docs, acc.chunks, change,
                                                 rem, rf))
        ELSE [acc EXCEPT !.stats.changes_processed = @ + 1]

RECURSIVE IncrementalLoop(_, _, _, _)
IncrementalLoop(acc, changes, rem, rf) ==
    IF changes = <<>> THEN acc
    ELSE IncrementalLoop(IncrementalStep(acc, Head(changes), rem, rf),
                         Tail(changes), rem, rf)

\* The clock counts half days.  timedelta(days=n) is n days on that clock,
\* and DaysOf is timedelta.days, the whole days of a difference.
timedelta(days) == 2 * days

DaysOf(delta) == delta \div 2

\* perform_incremental_sync.  exp: the server answers "reset" for the stored
\* cursor; rf, lf: the faults of the run.
perform_incremental_sync(st, rem, log, exp, t, rf, lf) ==
    LET cutoff == t - timedelta(HISTORY_DAYS)
        state == [last_sync |-> t,
                  total_indexed |-> st.sync_state.total_indexed,
                  history |-> SelectSeq(
                      Append(st.sync_state.history,
                             [started_at |-> t, run |-> "incremental"]),
                      LAMBDA h : h.started_at > cutoff)]
        Finished(l, acc) ==
            [docs |-> acc.docs, chunks |-> acc.chunks, cursors |-> l.cursor,
             sync_state |-> IF l.error THEN st.sync_state
                            ELSE _save_sync_state(st.sync_state, state),
             stats |-> acc.stats, error |-> l.error, seen |-> l.entries,
             continueCalls |-> l.continueCalls, full |-> l.full]
        Listed(l) ==
            Finished(l, IncrementalLoop([docs |-> st.docs, chunks |-> st.chunks,
                                         stats |-> IncrementalStats],
                                        l.entries, rem, rf))
    IN  Listed(list_folder_changes(rem, log, st.cursors, exp, lf))

NoSyncState == [last_sync |-> -1, total_indexed |-> 0, history |-> <<>>]

NoRun ==
    [kind |-> "none", seq |-> 0, error |-> FALSE, stats |-> InitialStats,
     seen |-> <<>>, rf |-> NoRunFault, lf |-> NoListFault,
     cursorBefore |-> NoCursor, expiredBefore |-> FALSE, continueCalls |-> 0,
     full |-> FALSE, logLen |-> 0, stateBefore |-> NoSyncState, t |-> 0,
     entry |-> "none"]

\* No call has been made to the search orchestrator yet.
NoSearchCall == [op |-> "none"]

NoAgentCall == [op |-> "none"]

NoChunkCall == [op |-> "none"]

\* The threads that call one RateLimiter and the identifiers they use.
Threads == {"t1", "t2"}

Identifiers == {"default", "other"}

Free == "free"

Idle ==
    [pc |-> "idle", identifier |-> "default", now |-> 0, ret |-> FALSE,
     wait |-> FALSE]

\* No sync run is in progress.
NoFeedRun ==
    [pc |-> "idle", seq |-> 0, last |-> "none", before |-> "none",
     again |-> FALSE, handedIdx |-> {}, fullAt |-> {}]

\* The directory agent, the chunker and a rate limiter before any call.
InitOtherVars ==
    /\ agentCall = NoAgentCall
    /\ chunkCall = NoChunkCall
    /\ _calls = [i \in Identifiers |-> <<>>]
    /\ _lock = Free
    /\ thread = [t \in Threads |-> Idle]
    /\ time = 0
    /\ granted = [i \in Identifiers |-> <<>>]
    /\ feedRun = NoFeedRun

InitSyncVars ==
    /\ remote = [id \in FileItems |-> IF id = "idP" THEN TShort ELSE NoFile]
    /\ serverLog = <<>>
    /\ cursors = NoCursor
    /\ expired = FALSE
    /\ sync_state = NoSyncState
    /\ now = 0
    /\ lastRun = NoRun
    /\ searchCall = NoSearchCall
    /\ InitOtherVars

----------------------------------------------------------------------------
(* The index writer driven call by call *)

CountRows(rows, Match(_)) == Cardinality({i \in DOMAIN rows : Match(rows[i])})

CountById(d, id) == LET M(r) == r.dropbox_id = id IN CountRows(d, M)

CountByHash(d, h) == LET M(r) == r.content_hash = h IN CountRows(d, M)

NoOp == [op |-> "none", id |-> "idA", text |-> NoText, f |-> NoFault,
         ok |-> TRUE, existing |-> 0,
         preRows |-> 0, preById |-> 0, preByHash |-> 0, preDocs |-> 0]

InitIndex ==
    /\ docs = <<>>
    /\ chunks = [i \in FileItems |-> <<>>]
    /\ lastOp = NoOp
    /\ calls = 0
    /\ InitSyncVars

PreFacts(id, text) ==
    [preRows |-> RowCount(chunks[id]),
     preById |-> CountById(docs, id),
     preByHash |-> CountByHash(docs, ContentHash(Content(text))),
     preDocs |-> Len(docs)]

IndexCall(F) ==
    \E id \in Ids, text \in Texts, f \in F :
        /\ calls < MaxCalls
        /\ calls' = calls + 1
        /\ UNCHANGED <<syncVars, searchVars, agentVars, chunkVars, limiterVars, feedVars>>
        /\ LET r == index_document(docs, chunks, [id |-> id, text |-> text], f)
               pre == PreFacts(id, text)
           IN  /\ docs' = r.docs
               /\ chunks' = r.chunks
               /\ lastOp' = [op |-> "index", id |-> id, text |-> text, f |-> f,
                             ok |-> r.ok, existing |-> r.existing,
                             preRows |-> pre.preRows, preById |-> pre.preById,
                             preByHash |-> pre.preByHash, preDocs |-> pre.preDocs]

DeleteCall(F) ==
    \E id \in Ids, f \in F :
        /\ calls < MaxCalls
        /\ calls' = calls + 1
        /\ f.chunkFailAt = -1
        /\ UNCHANGED <<syncVars, searchVars, agentVars, chunkVars, limiterVars, feedVars>>
        /\ LET r == delete_document(docs, chunks, id, f)
               pre == PreFacts(id, NoText)
           IN  /\ docs' = r.docs
               /\ chunks' = r.chunks
               /\ lastOp' = [op |-> "delete", id |-> id, text |-> NoText, f |-> f,
                             ok |-> r.ok, existing |-> r.existing,
                             preRows |-> pre.preRows, preById |-> pre.preById,
                             preByHash |-> pre.preByHash, preDocs |-> pre.preDocs]

\* Calls in which backend calls may fail.
IndexDocument == IndexCall(Faults)

DeleteDocument == DeleteCall(Faults)

NextIndex == IndexDocument \/ DeleteDocument

SpecIndex == InitIndex /\ [][NextIndex]_vars

\* Calls in which every backend call answers.
IndexDocumentQuiet == IndexCall({NoFault})

DeleteDocumentQuiet == DeleteCall({NoFault})

NextIndexQuiet == IndexDocumentQuiet \/ DeleteDocumentQuiet

SpecIndexQuiet == InitIndex /\ [][NextIndexQuiet]_vars

----------------------------------------------------------------------------
(* Claims about the index writer *)

RangeOf(seq) == {seq[i] : i \in DOMAIN seq}

\* The chunk rows of one parent as a set of (chunk_index, text) pairs.
ChunkSet(runs) ==
    UNION {{[idx |-> k, src |-> r.src, window |-> Windows[r.src][k + 1]] :
               k \in r.lo..r.hi} : r \in RangeOf(runs)}

\* The rows index_document is to leave for a parent after indexing `text`.
ExpectedRuns(text) ==
    IF Content(text).len > CHUNK_THRESHOLD
    THEN <<[src |-> text, total |-> Len(Windows[text]), lo |-> 0,
            hi |-> Len(Windows[text]) - 1]>>
    ELSE <<>>

OnlyLookupFaults(f) == f.delStop = -1 /\ f.chunkFailAt = -1 /\ f.writeFails = 0

\* C3: a second index_document call with the same source id and content,
\* right after the first, leaves exactly one Document row for the id and
\* the chunk set of the first call, also when a lookup of either call fails.
C3_IndexTwiceSameState ==
    [][(/\ lastOp.op = "index" /\ lastOp'.op = "index"
        /\ lastOp'.id = lastOp.id /\ lastOp'.text = lastOp.text
        /\ lastOp.ok /\ lastOp'.ok
        /\ OnlyLookupFaults(lastOp.f) /\ OnlyLookupFaults(lastOp'.f))
       => (/\ CountById(docs', lastOp'.id) = 1
           /\ ChunkSet(chunks'[lastOp'.id]) = ChunkSet(chunks[lastOp.id]))]_vars

\* C4: after index_document updated an existing document to a content at
\* or below the chunk threshold, while the parent had chunk rows, no chunk
\* row of that parent remains (stated for calls in which no backend call
\* fails).
C4_NoChunksAfterShrink ==
    (/\ lastOp.op = "index" /\ lastOp.ok /\ lastOp.existing # 0
     /\ lastOp.f = NoFault
     /\ Content(lastOp.text).len <= CHUNK_THRESHOLD
     /\ lastOp.preRows > 0)
    => chunks[lastOp.id] = <<>>

\* C5: indexing an item whose id has no Document row while exactly one row
\* holds its content hash (the item is a rename of that row's item) updates
\* that row: still one row for the content, no row added, and the row now
\* carries the item's id (stated for calls whose lookup answers).
C5_RenameUpdatesTheRow ==
    (/\ lastOp.op = "index" /\ ~lastOp.f.lookup
     /\ lastOp.preById = 0 /\ lastOp.preByHash = 1)
    => (/\ CountByHash(docs, ContentHash(Content(lastOp.text))) = 1
        /\ Len(docs) = lastOp.preDocs
        /\ lastOp.existing # 0
        /\ lastOp.ok => docs[lastOp.existing].dropbox_id = lastOp.id)

C5_Witness ==
    /\ lastOp.op = "index" /\ ~lastOp.f.lookup /\ lastOp.ok
    /\ lastOp.preById = 0 /\ lastOp.preByHash = 1
    /\ Len(docs) = 1 /\ docs[1].dropbox_id = lastOp.id
    /\ lastOp.existing = 1

\* C6: after index_document returned True for a parent that had chunk rows,
\* the rows of that parent are exactly the chunk sequence of the new
\* content, each index once (stated for calls in which no backend call
\* fails).
C6_ChunksFullyReplaced ==
    (/\ lastOp.op = "index" /\ lastOp.ok /\ lastOp.f = NoFault
     /\ lastOp.preRows > 0)
    => chunks[lastOp.id] = ExpectedRuns(lastOp.text)

\* C7: every chunk row's parent id is the source id of a Document row of the
\* index.
C7_NoOrphanChunks ==
    \A id \in FileItems : chunks[id] # <<>> => CountById(docs, id) > 0

----------------------------------------------------------------------------
(* The sync engine driven run by run, with the remote store changing *)

InitSync ==
    /\ docs = <<>>
    /\ chunks = [i \in FileItems |-> <<>>]
    /\ lastOp = NoOp
    /\ calls = 0
    /\ InitSyncVars

\* A file is added to the remote store or its content replaced.
Upload ==
    \E id \in FileItems, text \in Texts :
        /\ Len(serverLog) < MaxLog
        /\ id = "idP" => text = TShort
        /\ remote' = [remote EXCEPT ![id] = text]
        /\ serverLog' = Append(serverLog, _entry_to_dict(id, "file"))
        /\ UNCHANGED <<docs, chunks, lastOp, calls, cursors, expired, sync_state,
                       now, lastRun, searchCall,
                       agentVars, chunkVars, limiterVars, feedVars>>

\* A file is deleted from the remote store.
Remove ==
    \E id \in FileItems :
        /\ Len(serverLog) < MaxLog
        /\ remote[id] # NoFile
        /\ remote' = [remote EXCEPT ![id] = NoFile]
        /\ serverLog' = Append(serverLog, _entry_to_dict(id, "deleted"))
        /\ UNCHANGED <<docs, chunks, lastOp, calls, cursors, expired, sync_state,
                       now, lastRun, searchCall,
                       agentVars, chunkVars, limiterVars, feedVars>>

\* The server stops accepting the stored cursor.
ExpireCursor ==
    /\ cursors # NoCursor
    /\ ~expired
    /\ expired' = TRUE
    /\ UNCHANGED <<docs, chunks, lastOp, calls, remote, serverLog, cursors,
                   sync_state, now, lastRun, searchCall,
                       agentVars, chunkVars, limiterVars, feedVars>>

Engine == [docs |-> docs, chunks |-> chunks, cursors |-> cursors,
           sync_state |-> sync_state]

RanVia(entry, kind, r, rf, lf) ==
    /\ docs' = r.docs
    /\ chunks' = r.chunks
    /\ cursors' = r.cursors
    /\ expired' = IF r.cursors # cursors THEN FALSE ELSE expired
    /\ sync_state' = r.sync_state
    /\ lastRun' = [kind |-> kind, seq |-> lastRun.seq + 1, error |-> r.error,
                   stats |-> r.stats, seen |-> r.seen, rf |-> rf, lf |-> lf,
                   cursorBefore |-> cursors,
                   expiredBefore |-> expired, continueCalls |-> r.continueCalls,
                   full |-> r.full, logLen |-> Len(serverLog),
                   stateBefore |-> sync_state, t |-> now,
                   entry |-> entry]
    /\ UNCHANGED <<lastOp, calls, remote, serverLog, now, searchCall,
                   agentVars, chunkVars, limiterVars, feedVars>>

Ran(kind, r, rf, lf) == RanVia("direct", kind, r, rf, lf)

\* A run has item faults or listing faults.
InitialSync ==
    \E rf \in RunFaults, lf \in ListFaults :
        /\ lastRun.seq < MaxRuns
        /\ rf = NoRunFault \/ lf = NoListFault
        /\ lf.contFails = 0
        /\ Ran("initial",
               perform_initial_sync(Engine, remote, serverLog, now, rf, lf),
               rf, lf)

IncrementalSync ==
    \E rf \in RunFaults, lf \in ListFaults :
        /\ lastRun.seq < MaxRuns
        /\ rf = NoRunFault \/ lf = NoListFault
        /\ Ran("incremental",
               perform_incremental_sync(Engine, remote, serverLog, expired, now,
                                        rf, lf),
               rf, lf)

NextSync ==
    \/ Upload
    \/ Remove
    \/ ExpireCursor
    \/ InitialSync
    \/ IncrementalSync

SpecSync == InitSync /\ [][NextSync]_vars

----------------------------------------------------------------------------
(* Claims about the sync engine *)

DocSet(d) == {<<r.dropbox_id, r.content_hash>> : r \in RangeOf(d)}

ChunkIndexSet(c) ==
    UNION {UNION {{<<id, k>> : k \in r.lo..r.hi} : r \in RangeOf(c[id])} :
           id \in FileItems}

\* C1: an incremental run over the window of the incremental run before it
\* (same stored cursor, same feed, same remote contents, no backend or
\* download fault in either run) leaves the Document rows (by source id and
\* content hash) and the DocumentChunk rows (by parent id and chunk index)
\* as the first run left them.
C1_ReplayIsIdempotent ==
    [][(/\ lastRun.kind = "incremental" /\ lastRun'.kind = "incremental"
        /\ lastRun'.seq = lastRun.seq + 1
        /\ ~lastRun.error /\ ~lastRun'.error
        /\ ~lastRun.full /\ ~lastRun'.full
        /\ lastRun.rf = NoRunFault /\ lastRun'.rf = NoRunFault
        /\ lastRun'.cursorBefore = lastRun.cursorBefore
        /\ lastRun'.logLen = lastRun.logLen
        /\ lastRun'.seen = lastRun.seen)
       => (/\ DocSet(docs') = DocSet(docs)
           /\ ChunkIndexSet(chunks') = ChunkIndexSet(chunks))]_vars

\* The index perform_initial_sync builds from an empty index over the
\* snapshot `rem` when no call fails.
FreshIndex(rem) ==
    InitialLoop([docs |-> <<>>, chunks |-> [i \in FileItems |-> <<>>],
                 stats |-> InitialStats],
                SnapshotEntries(rem), rem, NoRunFault)

\* The last run was an incremental run whose change-listing call was
\* answered cursor-expired.
CursorExpiredRun ==
    /\ lastRun.kind = "incremental"
    /\ lastRun.cursorBefore # NoCursor
    /\ lastRun.expiredBefore

\* C2: an incremental run whose change listing answers cursor-expired falls
\* back to the full enumeration and leaves the index a fresh initial sync
\* over the same snapshot builds (stated for runs with no other fault, while
\* the remote store is as the run saw it).
C2_ExpiredCursorEqualsFreshSync ==
    (/\ CursorExpiredRun
     /\ lastRun.rf = NoRunFault /\ lastRun.lf = NoListFault
     /\ lastRun.logLen = Len(serverLog))
    => (/\ lastRun.full
        /\ DocSet(docs) = DocSet(FreshIndex(remote).docs)
        /\ chunks = FreshIndex(remote).chunks)

RunKinds == {"initial", "incremental"}

\* The last run wrote the sync state: last_sync is the run's time and the
\* last history entry is the run's.
StateWritten ==
    /\ sync_state # lastRun.stateBefore
    /\ sync_state.last_sync = lastRun.t
    /\ sync_state.history # <<>>
    /\ sync_state.history[Len(sync_state.history)] =
           [started_at |-> lastRun.t, run |-> lastRun.kind]

IndexableSeen ==
    {i \in DOMAIN lastRun.seen :
        /\ lastRun.seen[i].type = "file"
        /\ _should_index_file(lastRun.seen[i].ext)}

FailedSeen ==
    {i \in IndexableSeen : HowFor(lastRun.rf, lastRun.seen[i].id) \in FailureKinds}

\* C9: in perform_initial_sync every indexable file the listing yields is
\* attempted, also after a file whose download, transform or indexing
\* failed; each failure counts in files_failed, and files_processed =
\* files_indexed + files_failed.
C9_InitialSyncCountsFailures ==
    lastRun.kind = "initial" =>
        /\ lastRun.stats.files_processed = Cardinality(IndexableSeen)
        /\ lastRun.stats.files_failed = Cardinality(FailedSeen)
        /\ lastRun.stats.files_processed =
               lastRun.stats.files_indexed + lastRun.stats.files_failed
        /\ ~lastRun.error

C9_Witness ==
    /\ lastRun.kind = "initial"
    /\ lastRun.rf.bad = "idA"
    /\ lastRun.rf.how \in FailureKinds
    /\ lastRun.stats.files_failed = 1
    /\ lastRun.stats.files_indexed = 1
    /\ CountById(docs, "idB") = 1

\* C10: a cursor-expired answer is not retried with the same cursor, the
\* stored cursor is dropped, and the run goes on to the full enumeration
\* instead of ending as a failed run.
C10_ExpiredCursorNotRetried ==
    CursorExpiredRun =>
        /\ lastRun.continueCalls = 1
        /\ cursors # lastRun.cursorBefore
        /\ lastRun.full
        /\ ~lastRun.error

\* The run that has just ended was an incremental run without item faults.
QuietIncrementalStep ==
    /\ lastRun'.kind = "incremental"
    /\ lastRun'.seq = lastRun.seq + 1
    /\ lastRun'.rf = NoRunFault

\* The last record the run processed for `id` is tagged deleted.
DeletedLast(seen, id) ==
    \E i \in DOMAIN seen :
        /\ seen[i].id = id
        /\ ChangeType(seen[i]) = "deleted"
        /\ \A j \in DOMAIN seen : j > i => seen[j].id # id

\* C11: after an incremental run processes a record tagged deleted for a
\* file that is in the index, no Document row with the file's source id and
\* no DocumentChunk row with that parent id remains.
C11_DeletedRecordRemovesRows ==
    [][QuietIncrementalStep =>
        \A id \in Ids :
            (CountById(docs, id) > 0 /\ DeletedLast(lastRun'.seen, id))
            => (CountById(docs', id) = 0 /\ chunks'[id] = <<>>)]_vars

\* The run processed exactly one record, an added_or_modified record of an
\* indexable file, and indexed it.
OneFileIndexed(run) ==
    /\ Len(run.seen) = 1
    /\ ChangeType(run.seen[1]) = "added_or_modified"
    /\ _should_index_file(run.seen[1].ext)
    /\ run.stats.files_failed = 0
    /\ run.stats.changes_processed = 1

\* C12: a successfully indexed added_or_modified record counts in
\* files_added when no Document with its source id was in the index before
\* the record was processed, and in files_modified when one was.
C12_AddedVsModifiedByPreExistence ==
    [][(QuietIncrementalStep /\ OneFileIndexed(lastRun')) =>
        LET id == lastRun'.seen[1].id
            st == lastRun'.stats
        IN  IF CountById(docs, id) = 0
            THEN st.files_added = 1 /\ st.files_modified = 0
            ELSE st.files_added = 0 /\ st.files_modified = 1]_vars

----------------------------------------------------------------------------
(* The daily entry point and the clock *)

MaxTime == 126

\* The clock advances between runs by 10 days or by 10 days and a half.
TickSteps == {20, 21}

\* A daily entry point that compares the exact age of last_sync with 30 days.
run_daily_sync_ByExactAge(st, rem, log, exp, t, rf, lf) ==
    IF st.sync_state.last_sync = NoSyncState.last_sync
    THEN [kind |-> "initial", r |-> perform_initial_sync(st, rem, log, t, rf, lf)]
    ELSE IF t - st.sync_state.last_sync > timedelta(RESYNC_DAYS)
    THEN [kind |-> "initial", r |-> perform_initial_sync(st, rem, log, t, rf, lf)]
    ELSE [kind |-> "incremental",
          r |-> perform_incremental_sync(st, rem, log, exp, t, rf, lf)]

\* run_daily_sync: the run it makes and that run's result.
run_daily_sync(st, rem, log, exp, t, rf, lf) ==
    IF st.sync_state.last_sync = NoSyncState.last_sync
    THEN [kind |-> "initial", r |-> perform_initial_sync(st, rem, log, t, rf, lf)]
    ELSE LET days_since_sync == DaysOf(t - st.sync_state.last_sync)
         IN  IF days_since_sync > RESYNC_DAYS
             THEN [kind |-> "initial",
                   r |-> perform_initial_sync(st, rem, log, t, rf, lf)]
             ELSE [kind |-> "incremental",
                   r |-> perform_incremental_sync(st, rem, log, exp, t, rf, lf)]

InitDaily ==
    /\ docs = <<>>
    /\ chunks = [i \in FileItems |-> <<>>]
    /\ lastOp = NoOp
    /\ calls = 0
    /\ remote = [id \in FileItems |-> IF id = "idP" THEN TShort ELSE NoFile]
    /\ serverLog = <<>>
    /\ cursors = NoCursor
    /\ expired = FALSE
    /\ sync_state = NoSyncState
    /\ now = 0
    /\ lastRun = NoRun
    /\ searchCall = NoSearchCall
    /\ InitOtherVars

Tick ==
    \E d \in TickSteps :
        /\ now + d <= MaxTime
        /\ now' = now + d
        /\ UNCHANGED <<docs, chunks, lastOp, calls, remote, serverLog, cursors,
                       expired, sync_state, lastRun, searchCall,
                       agentVars, chunkVars, limiterVars, feedVars>>

\* The listing faults of a run started on the clock.
DailyFaults == {NoListFault, [NoListFault EXCEPT !.contFails = LIST_ATTEMPTS]}

DailySync ==
    \E lf \in DailyFaults :
        /\ lastRun.seq < MaxRuns
        /\ \E c \in {run_daily_sync(Engine, remote, serverLog, expired, now,
                                    NoRunFault, lf)} :
               RanVia("daily", c.kind, c.r, NoRunFault, lf)

InitialSyncNow ==
    /\ lastRun.seq < MaxRuns
    /\ \E r \in {perform_initial_sync(Engine, remote, serverLog, now,
                                       NoRunFault, NoListFault)} :
           Ran("initial", r, NoRunFault, NoListFault)

IncrementalSyncNow ==
    \E lf \in DailyFaults :
        /\ lastRun.seq < MaxRuns
        /\ \E r \in {perform_incremental_sync(Engine, remote, serverLog,
                                               expired, now, NoRunFault, lf)} :
               Ran("incremental", r, NoRunFault, lf)

NextDaily ==
    \/ Tick
    \/ DailySync
    \/ InitialSyncNow
    \/ IncrementalSyncNow

SpecDaily == InitDaily /\ [][NextDaily]_vars

\* The age of last_sync, in half days, when the last run started.
AgeAtRun == lastRun.t - lastRun.stateBefore.last_sync

FirstEver == lastRun.stateBefore.last_sync = NoSyncState.last_sync

\* C13 as stated: a call of run_daily_sync makes an initial sync when no
\* last_sync is recorded, a full sync when last_sync is more than 30 days
\* old, and an incremental sync in every other case.
C13_DailyChoiceByAge ==
    lastRun.entry = "daily" =>
        lastRun.kind = IF FirstEver THEN "initial"
                       ELSE IF AgeAtRun > timedelta(RESYNC_DAYS) THEN "initial"
                       ELSE "incremental"

\* C13 as amended: the full sync is forced when the whole days elapsed
\* since last_sync exceed 30, that is from 31 days on; a last_sync between
\* 30 and 31 days old still gets an incremental sync.
C13_DailyChoiceByWholeDays ==
    lastRun.entry = "daily" =>
        /\ lastRun.kind = IF FirstEver THEN "initial"
                          ELSE IF DaysOf(AgeAtRun) > RESYNC_DAYS THEN "initial"
                          ELSE "incremental"
        /\ lastRun.kind = "initial" => lastRun.full
        /\ Len(sync_state.history) <= Len(lastRun.stateBefore.history) + 1

C13_Witness ==
    /\ lastRun.entry = "daily"
    /\ ~FirstEver
    /\ DaysOf(AgeAtRun) > RESYNC_DAYS
    /\ lastRun.kind = "initial"
    /\ lastRun.full

\* C14: every entry of the persisted sync history started within 30 days of
\* the run that last saved the state.
C14_HistoryWithinRetention ==
    \A i \in DOMAIN sync_state.history :
        sync_state.last_sync - sync_state.history[i].started_at
            <= timedelta(HISTORY_DAYS)

\* The last index_document call had a backend write whose attempts were all
\* used up: the Document insert or update, or the insert of a chunk.
WriteExhausted ==
    \/ lastOp.f.writeFails >= WRITE_ATTEMPTS
    \/ /\ lastOp.f.writeFails = 0
       /\ Content(lastOp.text).len > CHUNK_THRESHOLD
       /\ lastOp.f.chunkFailAt # -1
       /\ lastOp.f.chunkFailAt < Len(Windows[lastOp.text])

\* C15: when the attempts of a backend write of index_document (document
\* insert, document update, chunk insert) are exhausted, index_document
\* returns False.
C15_ExhaustedWriteReturnsFalse ==
    (lastOp.op = "index" /\ WriteExhausted) => ~lastOp.ok

----------------------------------------------------------------------------
(* Search orchestrator: strategy builder *)

\* A string is the sequence of the classes of its characters: "d" a digit,
\* "." a dot, "a" a letter, " " a space.  None is the absent value.
None == <<"None">>

ALPHA_FILTERED == 5
ALPHA_BROAD == 7
VECTOR_MIN_QUERY == 10

W9 == <<"a", "d">>

LongWord == [i \in 1..11 |-> "a"]

KeyWords == {<<>>, <<".">>, <<"d">>, <<"d", ".", "d">>, W9, LongWord}

MaxKeywords == 2

KeywordLists ==
    UNION {[1..n -> KeyWords] : n \in 0..MaxKeywords}

SearchEntities ==
    [project : {None, <<"a">>, LongWord},
     contractor : {None, <<"a">>},
     document_type : {None, <<>>, <<"a">>},
     specific_file : {None, <<>>, <<"a">>},
     keywords : KeywordLists]

NoEntities ==
    [project |-> None, contractor |-> None, document_type |-> None,
     specific_file |-> None, keywords |-> <<>>]

\* Python's truth value of an Optional[str].
Truthy(v) == v # None /\ v # <<>>

\* A digit test that also accepts the empty string.
isdigit_OrEmpty(str) == \A i \in DOMAIN str : str[i] = "d"

\* str.isdigit and str.replace('.', '').
isdigit(str) == str # <<>> /\ \A i \in DOMAIN str : str[i] = "d"

StripDots(str) == SelectSeq(str, LAMBDA ch : ch # ".")

RECURSIVE Join(_)
Join(terms) ==
    IF terms = <<>> THEN <<>>
    ELSE IF Len(terms) = 1 THEN terms[1]
    ELSE terms[1] \o <<" ">> \o Join(Tail(terms))

\* _build_filters: the properties a filter condition is built for; the
\* empty set stands for None.
NoFilters == {}

_build_filters(entities) ==
    {f \in {"project", "contractor", "document_type"} : Truthy(entities[f])}

Terms(entities) ==
    (IF Truthy(entities.project) THEN <<entities.project>> ELSE <<>>)
    \o (IF Truthy(entities.contractor) THEN <<entities.contractor>> ELSE <<>>)
    \o (IF Truthy(entities.document_type) THEN <<entities.document_type>> ELSE <<>>)
    \o entities.keywords

_build_search_strategies(entities) ==
    LET terms == Terms(entities)
        query == Join(terms)
        filters == _build_filters(entities)
        s1 == IF terms # <<>>
              THEN <<[type |-> "hybrid", query |-> query, alpha |-> ALPHA_FILTERED,
                      filters |-> filters]>>
              ELSE <<>>
        s2 == IF Len(query) > VECTOR_MIN_QUERY
              THEN <<[type |-> "vector", query |-> query, filters |-> filters]>>
              ELSE <<>>
        s3 == IF Truthy(entities.specific_file)
                 \/ \E i \in DOMAIN entities.keywords :
                        isdigit(StripDots(entities.keywords[i]))
              THEN <<[type |-> "keyword",
                      query |-> IF Truthy(entities.specific_file)
                                THEN entities.specific_file
                                ELSE Join(entities.keywords),
                      filters |-> filters]>>
              ELSE <<>>
        s4 == IF terms # <<>>
              THEN <<[type |-> "hybrid", query |-> query, alpha |-> ALPHA_BROAD,
                      filters |-> NoFilters]>>
              ELSE <<>>
    IN  s1 \o s2 \o s3 \o s4

\* A call of _build_search_strategies.  The calls of the orchestrator share
\* no state the claims read, so a behaviour makes one call.
BuildStrategies ==
    \E e \in SearchEntities :
        /\ searchCall.op = "none"
        /\ searchCall' = [op |-> "build", entities |-> e,
                          strategies |-> _build_search_strategies(e)]
        /\ UNCHANGED <<idxVars, syncVars, agentVars, chunkVars, limiterVars, feedVars>>

\* The entities have keywords and no other field set.
OnlyKeywords(e) ==
    /\ e.keywords # <<>>
    /\ e.project = None /\ e.contractor = None
    /\ e.document_type = None /\ e.specific_file = None

\* Digits with optional dots.
IdentifierShaped(k) ==
    /\ \A i \in DOMAIN k : k[i] \in {"d", "."}
    /\ \E i \in DOMAIN k : k[i] = "d"

HasType(strategies, type) ==
    \E i \in DOMAIN strategies : strategies[i].type = type

\* C16: entities whose only set field is keywords, none of them
\* identifier-shaped, get at least one hybrid strategy and no keyword
\* strategy.
C16_KeywordsOnlyGetHybrid ==
    (/\ searchCall.op = "build"
     /\ OnlyKeywords(searchCall.entities)
     /\ \A i \in DOMAIN searchCall.entities.keywords :
            ~IdentifierShaped(searchCall.entities.keywords[i]))
    => (/\ HasType(searchCall.strategies, "hybrid")
        /\ ~HasType(searchCall.strategies, "keyword"))

C16_Witness ==
    /\ searchCall.op = "build"
    /\ searchCall.entities = [NoEntities EXCEPT !.keywords = <<W9>>]
    /\ HasType(searchCall.strategies, "hybrid")
    /\ ~HasType(searchCall.strategies, "keyword")

\* The strategy is the filterless hybrid fallback.
IsFallback(st) ==
    st.type = "hybrid" /\ st.filters = NoFilters /\ st.alpha = ALPHA_BROAD

\* C17: for every SearchEntities value the strategy list holds one
\* filterless hybrid fallback, with a higher alpha than every filtered
\* hybrid, and it comes after every other strategy.
C17_FallbackAlwaysEmitted ==
    searchCall.op = "build" =>
        LET sts == searchCall.strategies
        IN  /\ sts # <<>>
            /\ IsFallback(sts[Len(sts)])
            /\ \A i \in 1..(Len(sts) - 1) :
                   /\ ~IsFallback(sts[i])
                   /\ sts[i].type = "hybrid" => sts[i].alpha < ALPHA_BROAD

----------------------------------------------------------------------------
(* Search orchestrator: execution, fusion and ranking *)

\* The object the Document collection holds for a source id, and the path
\* the indexer stored for it.
UuidOf == [idA |-> "uuidA", idB |-> "uuidB"]

PathOf == [idA |-> "/docs/a.txt", idB |-> "/docs/b.md"]

Scores == {1, 2}

DocObjects == [dropbox_id : Ids, score : Scores]

ChunkObjects == [parent_dropbox_id : Ids, chunk_index : {0, 1}, score : Scores]

MaxDocHits == 2
MaxChunkHits == 2

\* The answers of a collection to one query: every object at most once.
DocAnswers ==
    {a \in UNION {[1..n -> DocObjects] : n \in 0..MaxDocHits} :
        \A i, j \in DOMAIN a : i # j => a[i].dropbox_id # a[j].dropbox_id}

ChunkAnswers ==
    {a \in UNION {[1..n -> ChunkObjects] : n \in 0..MaxChunkHits} :
        \A i, j \in DOMAIN a :
            i # j => <<a[i].parent_dropbox_id, a[i].chunk_index>>
                     # <<a[j].parent_dropbox_id, a[j].chunk_index>>}

\* _search_documents: the properties named in return_properties, the
\* object's uuid as _id and its score as _score.
_search_documents(objects) ==
    [i \in DOMAIN objects |->
        [_id |-> UuidOf[objects[i].dropbox_id],
         file_path |-> PathOf[objects[i].dropbox_id],
         _score |-> objects[i].score]]

_search_chunks(objects) ==
    [i \in DOMAIN objects |->
        [parent_dropbox_id |-> objects[i].parent_dropbox_id,
         file_path |-> PathOf[objects[i].parent_dropbox_id],
         chunk_index |-> objects[i].chunk_index,
         _score |-> objects[i].score,
         _is_chunk |-> TRUE]]

\* doc.get('dropbox_id') or doc.get('_id')
DocId(doc) == IF "dropbox_id" \in DOMAIN doc THEN doc.dropbox_id ELSE doc._id

\* The parents of the chunk hits, in the order of their first hit.
RECURSIVE ParentsInOrder(_, _)
ParentsInOrder(hits, seen) ==
    IF hits = <<>> THEN <<>>
    ELSE IF Head(hits).parent_dropbox_id \in seen
    THEN ParentsInOrder(Tail(hits), seen)
    ELSE <<Head(hits).parent_dropbox_id>>
         \o ParentsInOrder(Tail(hits), seen \cup {Head(hits).parent_dropbox_id})

\* The first hit with the highest score: chunk_list.sort(reverse=True)[0].
BestChunk(chunk_list) ==
    LET top == MaxOf({chunk_list[i]._score : i \in DOMAIN chunk_list})
        i == CHOOSE k \in DOMAIN chunk_list :
                 /\ chunk_list[k]._score = top
                 /\ \A j \in DOMAIN chunk_list :
                        chunk_list[j]._score = top => k <= j
    IN  chunk_list[i]

_combine_results(documents, chunk_hits) ==
    LET seen_ids == {DocId(documents[i]) : i \in DOMAIN documents}
        parents == SelectSeq(ParentsInOrder(chunk_hits, {}),
                             LAMBDA parent_id : parent_id \notin seen_ids)
        OfParent(parent_id) ==
            SelectSeq(chunk_hits, LAMBDA c : c.parent_dropbox_id = parent_id)
        Synthetic(parent_id) ==
            LET best_chunk == BestChunk(OfParent(parent_id))
            IN  [dropbox_id |-> parent_id,
                 file_path |-> best_chunk.file_path,
                 _matched_chunks |-> Len(OfParent(parent_id)),
                 _from_chunks |-> TRUE,
                 _score |-> best_chunk._score]
    IN  documents \o [i \in DOMAIN parents |-> Synthetic(parents[i])]

\* _execute_search for a strategy both collections answer.
_execute_search(docAnswer, chunkAnswer) ==
    _combine_results(_search_documents(docAnswer), _search_chunks(chunkAnswer))

ExecuteSearch ==
    \E da \in DocAnswers, ca \in ChunkAnswers :
        /\ searchCall.op = "none"
        /\ searchCall' = [op |-> "execute", documents |-> da, chunk_hits |-> ca,
                          combined |-> _execute_search(da, ca)]
        /\ UNCHANGED <<idxVars, syncVars, agentVars, chunkVars, limiterVars, feedVars>>

\* The entries of a fused result list that stand for the source document id.
EntriesFor(combined, id) ==
    {i \in DOMAIN combined :
        \/ "_id" \in DOMAIN combined[i] /\ combined[i]._id = UuidOf[id]
        \/ "dropbox_id" \in DOMAIN combined[i] /\ combined[i].dropbox_id = id}

\* C19: a source document hit in both the document collection and the chunk
\* collection has exactly one entry in the fused list, its document hit.
C19_OneEntryPerSource ==
    searchCall.op = "execute" =>
        \A id \in Ids :
            (/\ \E i \in DOMAIN searchCall.documents :
                    searchCall.documents[i].dropbox_id = id
             /\ \E i \in DOMAIN searchCall.chunk_hits :
                    searchCall.chunk_hits[i].parent_dropbox_id = id)
            => (/\ Cardinality(EntriesFor(searchCall.combined, id)) = 1
                /\ \A i \in EntriesFor(searchCall.combined, id) :
                       "_from_chunks" \notin DOMAIN searchCall.combined[i])

\* An accumulated hit as _rank_results reads it: its file path ("" when the
\* hit has none), its score, and the entity texts str(result) contains.
RankHits ==
    [file_path : {"", "/docs/a.txt", "/docs/b.md"},
     _score : Scores,
     mentions : {{}, {<<"a">>}}]

MaxHits == 3

HitLists == UNION {[1..n -> RankHits] : n \in 0..MaxHits}

RankEntities ==
    {NoEntities,
     [NoEntities EXCEPT !.project = <<"a">>, !.keywords = <<W9>>],
     [NoEntities EXCEPT !.document_type = <<"a">>, !.keywords = <<<<>>>>]}

\* value.lower() in str(result).lower(): the empty string is in every string.
Contains(result, value) == value = <<>> \/ value \in result.mentions

heuristic_score(result, entities) ==
    (IF Truthy(entities.project) /\ Contains(result, entities.project)
     THEN 3 ELSE 0)
    + (IF Truthy(entities.contractor) /\ Contains(result, entities.contractor)
       THEN 3 ELSE 0)
    + (IF Truthy(entities.document_type)
          /\ Contains(result, entities.document_type)
       THEN 2 ELSE 0)
    + Cardinality({i \in DOMAIN entities.keywords :
                       Contains(result, entities.keywords[i])})

\* The loop of _rank_results: a hit is kept when it has a path no kept hit
\* has.
RECURSIVE UniqueResults(_, _, _)
UniqueResults(results, seen_paths, entities) ==
    IF results = <<>> THEN <<>>
    ELSE LET result == Head(results)
             path == result.file_path
         IN  IF path # "" /\ path \notin seen_paths
             THEN <<[file_path |-> path, _score |-> result._score,
                     mentions |-> result.mentions,
                     heuristic_score |-> heuristic_score(result, entities)]>>
                  \o UniqueResults(Tail(results), seen_paths \cup {path}, entities)
             ELSE UniqueResults(Tail(results), seen_paths, entities)

\* list.sort(key=(_score, heuristic_score), reverse=True): stable.
KeyAbove(a, b) ==
    \/ a._score > b._score
    \/ a._score = b._score /\ a.heuristic_score > b.heuristic_score

RECURSIVE InsertSorted(_, _)
InsertSorted(sorted, x) ==
    IF sorted = <<>> THEN <<x>>
    ELSE IF KeyAbove(x, Head(sorted)) THEN <<x>> \o sorted
    ELSE <<Head(sorted)>> \o InsertSorted(Tail(sorted), x)

RECURSIVE SortDescending(_)
SortDescending(items) ==
    IF items = <<>> THEN <<>>
    ELSE InsertSorted(SortDescending(SubSeq(items, 1, Len(items) - 1)),
                      items[Len(items)])

\* A ranking that keeps the last hit of each path.
RECURSIVE UniqueResultsLast(_, _)
UniqueResultsLast(results, entities) ==
    IF results = <<>> THEN <<>>
    ELSE LET result == Head(results)
             later == {Tail(results)[i].file_path : i \in DOMAIN Tail(results)}
         IN  IF result.file_path # "" /\ result.file_path \notin later
             THEN <<[file_path |-> result.file_path, _score |-> result._score,
                     mentions |-> result.mentions,
                     heuristic_score |-> heuristic_score(result, entities)]>>
                  \o UniqueResultsLast(Tail(results), entities)
             ELSE UniqueResultsLast(Tail(results), entities)

_rank_results_KeepLast(results, entities) ==
    SortDescending(UniqueResultsLast(results, entities))

_rank_results(results, entities) ==
    SortDescending(UniqueResults(results, {}, entities))

RankResults ==
    \E results \in HitLists, e \in RankEntities :
        /\ searchCall.op = "none"
        /\ searchCall' = [op |-> "rank", results |-> results, entities |-> e,
                          ranked |-> _rank_results(results, e)]
        /\ UNCHANGED <<idxVars, syncVars, agentVars, chunkVars, limiterVars, feedVars>>

\* The hit as it was accumulated, without the score the ranking adds.
AsAccumulated(r) ==
    [file_path |-> r.file_path, _score |-> r._score, mentions |-> r.mentions]

\* The first hits of their file path, among all hits and among the hits
\* that have a path.
FirstOfPath(results) ==
    {i \in DOMAIN results :
        \A j \in 1..(i - 1) : results[j].file_path # results[i].file_path}

FirstOfNamedPath(results) ==
    {i \in FirstOfPath(results) : results[i].file_path # ""}

RankedAre(kept) ==
    /\ Len(searchCall.ranked) = Cardinality(kept)
    /\ {AsAccumulated(searchCall.ranked[k]) : k \in DOMAIN searchCall.ranked}
       = {searchCall.results[i] : i \in kept}
    /\ \A k, l \in DOMAIN searchCall.ranked :
           k # l => searchCall.ranked[k].file_path # searchCall.ranked[l].file_path

\* C20 as stated: the ranked list holds one result per file path, the first
\* hit of that path with its score, and a hit is absent only if an earlier
\* hit has its file path.
C20_FirstOccurrenceOfEveryPath ==
    searchCall.op = "rank" => RankedAre(FirstOfPath(searchCall.results))

\* C20 as amended: the same for the hits that have a file path; a hit whose
\* file path is empty or missing is never in the ranked list.
C20_FirstOccurrenceOfNamedPaths ==
    searchCall.op = "rank" => RankedAre(FirstOfNamedPath(searchCall.results))

C20_Witness ==
    /\ searchCall.op = "rank"
    /\ Len(searchCall.results) = 3
    /\ searchCall.results[1].file_path = "/docs/a.txt"
    /\ searchCall.results[2].file_path = "/docs/a.txt"
    /\ searchCall.results[1]._score < searchCall.results[2]._score
    /\ searchCall.results[3].file_path = ""
    /\ Len(searchCall.ranked) = 1
    /\ searchCall.ranked[1]._score = searchCall.results[1]._score

----------------------------------------------------------------------------
(* Search orchestrator: search and its refinement round *)

REFINED_STRATEGIES == 2

\* The entities the extractor answers in the model's searches.
QueryEntities ==
    {NoEntities,
     [NoEntities EXCEPT !.keywords = <<W9>>],
     [NoEntities EXCEPT !.specific_file = <<"a">>],
     [NoEntities EXCEPT !.project = LongWord, !.keywords = <<<<"d">>>>],
     [NoEntities EXCEPT !.contractor = <<"a">>, !.document_type = <<"a">>]}

\* What decides whether the backend answers a strategy: its type and
\* whether it carries filters.
StrategyKey(strategy) == <<strategy.type, strategy.filters # NoFilters>>

StrategyKeys == {"hybrid", "vector", "keyword"} \X BOOLEAN

\* The fused hits of a strategy the backend answers.
AnsweredHits ==
    _execute_search(<<[dropbox_id |-> "idA", score |-> 2]>>, <<>>)

Answer(strategy, answering) ==
    IF StrategyKey(strategy) \in answering THEN AnsweredHits ELSE <<>>

\* The loop over a list of strategies: the results of each are appended.
RECURSIVE RunStrategies(_, _)
RunStrategies(strategies, answering) ==
    IF strategies = <<>> THEN <<>>
    ELSE Answer(Head(strategies), answering)
         \o RunStrategies(Tail(strategies), answering)

\* A search that tries every refined strategy.
search_AllRefined(entities, refined, answering) ==
    LET search_strategies == _build_search_strategies(entities)
        first == RunStrategies(search_strategies, answering)
        refine == first = <<>>
        second == IF refine THEN _build_search_strategies(refined) ELSE <<>>
        results == first \o RunStrategies(second, answering)
    IN  [first |-> search_strategies, first_found |-> Len(first),
         refine_calls |-> IF refine THEN 1 ELSE 0,
         second |-> second, total_found |-> Len(results),
         strategies_tried |-> Len(search_strategies)]

\* search.  entities: the extractor's answer; refined: what
\* refine_with_feedback answers when it is called (the entities themselves
\* when the refinement fails); answering: the strategies the backend has
\* hits for.  A SearchEntities object is always true in `not results and
\* entities`.
search(entities, refined, answering) ==
    LET search_strategies == _build_search_strategies(entities)
        first == RunStrategies(search_strategies, answering)
        refine == first = <<>>
        refined_strategies ==
            IF refine THEN _build_search_strategies(refined) ELSE <<>>
        second == SubSeq(refined_strategies, 1,
                         Min2(REFINED_STRATEGIES, Len(refined_strategies)))
        results == first \o RunStrategies(second, answering)
    IN  [first |-> search_strategies, first_found |-> Len(first),
         refine_calls |-> IF refine THEN 1 ELSE 0,
         second |-> second, total_found |-> Len(results),
         strategies_tried |-> Len(search_strategies)]

Search ==
    \E e \in QueryEntities, refined \in QueryEntities,
       answering \in SUBSET StrategyKeys :
        /\ searchCall.op = "none"
        /\ searchCall' = [op |-> "search", entities |-> e, refined |-> refined,
                          answering |-> answering,
                          out |-> search(e, refined, answering)]
        /\ UNCHANGED <<idxVars, syncVars, agentVars, chunkVars, limiterVars, feedVars>>

\* search_context: whether a previous turn stored last_entities, and their
\* value.
NoContext == [stored |-> FALSE, last_entities |-> NoEntities]

Contexts ==
    {NoContext} \cup {[stored |-> TRUE, last_entities |-> e] : e \in QueryEntities}

\* The entities search_with_context holds after the inheritance step.
\* referential: the query contains "that" or "it".
Inherited(own, referential, context) ==
    IF referential /\ context.stored
    THEN LET last == context.last_entities
         IN  [own EXCEPT
                 !.project = IF ~Truthy(own.project) /\ Truthy(last.project)
                             THEN last.project ELSE @,
                 !.contractor =
                     IF ~Truthy(own.contractor) /\ Truthy(last.contractor)
                     THEN last.contractor ELSE @]
    ELSE own

\* search_with_context.  own: the answer of extract(query, context);
\* again: the answer of extract_with_examples inside search(query).  The
\* entities of the inheritance step are a local of search_with_context;
\* search is called with the query alone.
search_with_context(own, referential, context, again, refined, answering) ==
    [entities |-> Inherited(own, referential, context),
     out |-> search(again, refined, answering)]

SearchWithContext ==
    \E own \in QueryEntities, again \in QueryEntities, referential \in BOOLEAN,
       context \in Contexts,
       answering \in {{}, StrategyKeys} :
        /\ searchCall.op = "none"
        /\ LET r == search_with_context(own, referential, context, again,
                                        again, answering)
           IN  searchCall' = [op |-> "context", own |-> own, again |-> again,
                              referential |-> referential, context |-> context,
                              answering |-> answering,
                              entities |-> r.entities, out |-> r.out]
        /\ UNCHANGED <<idxVars, syncVars, agentVars, chunkVars, limiterVars, feedVars>>

\* What a call of the extractor's language model does: it raises, or it
\* answers entities.
LlmRaises == [raises |-> TRUE, entities |-> NoEntities]

LlmOutcomes ==
    {LlmRaises} \cup {[raises |-> FALSE, entities |-> e] : e \in QueryEntities}

\* What a call returns: a value, or an exception that leaves the call.
Returned(value) == [raised |-> FALSE, value |-> value]

\* An extraction without its try/except: the model's exception leaves it.
extract_with_examples_Unguarded(llm) ==
    [raised |-> llm.raises, value |-> llm.entities]

\* extract and extract_with_examples: the model's answer, SearchEntities()
\* when the call raises.
extract(llm) == Returned(IF llm.raises THEN NoEntities ELSE llm.entities)

extract_with_examples(llm) ==
    Returned(IF llm.raises THEN NoEntities ELSE llm.entities)

\* refine_with_feedback
refine_with_feedback(entities, llm, no_results) ==
    IF ~no_results THEN Returned(entities)
    ELSE Returned(IF llm.raises THEN entities ELSE llm.entities)

ExtractorCall ==
    /\ searchCall.op = "none"
    /\ \E llm \in LlmOutcomes, entities \in QueryEntities, no_results \in BOOLEAN :
           \/ /\ entities = NoEntities /\ no_results
              /\ searchCall' = [op |-> "extract", llm |-> llm, out |-> extract(llm)]
           \/ /\ entities = NoEntities /\ no_results
              /\ searchCall' = [op |-> "extract_with_examples", llm |-> llm,
                                out |-> extract_with_examples(llm)]
           \/ searchCall' = [op |-> "refine", llm |-> llm, entities |-> entities,
                             no_results |-> no_results,
                             out |-> refine_with_feedback(entities, llm,
                                                          no_results)]
    /\ UNCHANGED <<idxVars, syncVars, agentVars, chunkVars, limiterVars, feedVars>>

\* The keys of the dict search returns, and of the one its except clause
\* returns.
RESULT_KEYS ==
    {"success", "results", "entities_extracted", "strategies_tried", "total_found"}

ERROR_KEYS == {"success", "error", "results"}

\* search from the query on.  llm1, llm2: what the model does in the
\* extraction and in the refinement; fault: another step of search raises
\* (entity discovery, a strategy); every exception inside search reaches
\* its except clause.
search_query(llm1, llm2, answering, fault) ==
    LET Caught == [raised |-> FALSE, keys |-> ERROR_KEYS, total_found |-> 0]
        Refined(e, r) ==
            IF r.raised THEN Caught
            ELSE [raised |-> FALSE, keys |-> RESULT_KEYS,
                  total_found |-> search(e, r.value, answering).total_found]
        Extracted(e) ==
            IF fault \/ e.raised THEN Caught
            ELSE IF RunStrategies(_build_search_strategies(e.value), answering)
                        = <<>>
            THEN Refined(e.value, refine_with_feedback(e.value, llm2, TRUE))
            ELSE Refined(e.value, Returned(e.value))
    IN  Extracted(extract_with_examples(llm1))

SearchQuery ==
    /\ searchCall.op = "none"
    /\ \E llm1 \in LlmOutcomes, llm2 \in LlmOutcomes,
          answering \in {{}, StrategyKeys}, fault \in BOOLEAN :
           searchCall' = [op |-> "query", llm1 |-> llm1, llm2 |-> llm2,
                          answering |-> answering, fault |-> fault,
                          out |-> search_query(llm1, llm2, answering, fault)]
    /\ UNCHANGED <<idxVars, syncVars, agentVars, chunkVars, limiterVars, feedVars>>

NextSearch ==
    \/ BuildStrategies
    \/ ExecuteSearch
    \/ RankResults
    \/ Search
    \/ SearchWithContext
    \/ ExtractorCall
    \/ SearchQuery

SpecSearch == InitIndex /\ [][NextSearch]_vars

\* C18: in one search, refine_with_feedback is called at most once and only
\* when the first pass found nothing; at most two strategies of the refined
\* entities are then executed, the first ones of their list, and nothing
\* else follows.
C18_OneBoundedRefinement ==
    searchCall.op = "search" =>
        LET out == searchCall.out
            refined_strategies == _build_search_strategies(searchCall.refined)
        IN  /\ out.refine_calls <= 1
            /\ out.refine_calls = 1 <=> out.first_found = 0
            /\ out.refine_calls = 0 => out.second = <<>>
            /\ Len(out.second) <= 2
            /\ out.refine_calls = 1 =>
                   out.second = SubSeq(refined_strategies, 1,
                                       Min2(2, Len(refined_strategies)))

C18_Witness ==
    /\ searchCall.op = "search"
    /\ searchCall.out.refine_calls = 1
    /\ Len(_build_search_strategies(searchCall.refined)) > 2
    /\ Len(searchCall.out.second) = 2
    /\ searchCall.out.total_found = 0

----------------------------------------------------------------------------
(* Follow-up queries *)

\* A field of the follow-up that its own extraction left unset and the
\* previous turn has.
InheritedField(f) ==
    /\ searchCall.op = "context"
    /\ searchCall.referential
    /\ searchCall.context.stored
    /\ ~Truthy(searchCall.own[f])
    /\ Truthy(searchCall.context.last_entities[f])

\* C21: for a referential follow-up with stored entities, the strategies
\* search_with_context builds and executes are those of the follow-up's own
\* entities completed with the previous turn's project and contractor
\* wherever its own extraction left them unset.  The two extractions of the
\* follow-up are taken to give the same answer.
C21_FollowUpInheritsContext ==
    (/\ searchCall.op = "context"
     /\ searchCall.again = searchCall.own
     /\ \E f \in {"project", "contractor"} : InheritedField(f))
    => searchCall.out.first =
           _build_search_strategies(
               Inherited(searchCall.own, TRUE, searchCall.context))

\* C25: a failing call of the extractor's language model leaves no
\* extractor method and no search as an exception: extract and
\* extract_with_examples return the unconstrained SearchEntities,
\* refine_with_feedback returns the entities it was given, and search
\* returns a dict with the keys success and results.
C25_ExtractorFailureContained ==
    /\ (searchCall.op \in {"extract", "extract_with_examples"}
            /\ searchCall.llm.raises)
       => searchCall.out = Returned(NoEntities)
    /\ (searchCall.op = "refine" /\ searchCall.llm.raises)
       => searchCall.out = Returned(searchCall.entities)
    /\ searchCall.op = "query"
       => /\ ~searchCall.out.raised
          /\ {"success", "results"} \subseteq searchCall.out.keys

C25_Witness ==
    /\ searchCall.op = "query"
    /\ searchCall.llm1.raises
    /\ searchCall.llm2.raises
    /\ ~searchCall.fault
    /\ searchCall.out.keys = RESULT_KEYS

----------------------------------------------------------------------------
(* Directory agent: query classification *)

\* A string is the sequence of its characters.
UpperCase ==
    <<"A", "B", "C", "D", "E", "F", "G", "H", "I", "J", "K", "L", "M", "N", "O", "P", "Q", "R", "S", "T", "U", "V", "W", "X", "Y", "Z">>

LowerCase ==
    <<"a", "b", "c", "d", "e", "f", "g", "h", "i", "j", "k", "l", "m", "n", "o", "p", "q", "r", "s", "t", "u", "v", "w", "x", "y", "z">>

\* str.lower
lower(str) ==
    [i \in DOMAIN str |->
        IF \E k \in DOMAIN UpperCase : UpperCase[k] = str[i]
        THEN LowerCase[CHOOSE k \in DOMAIN UpperCase : UpperCase[k] = str[i]]
        ELSE str[i]]

\* `sub in str`
Within(sub, str) ==
    \E i \in 1..(Len(str) - Len(sub) + 1) : SubSeq(str, i, i + Len(sub) - 1) = sub

\* str.endswith
endswith(str, suffix) ==
    /\ Len(suffix) <= Len(str)
    /\ SubSeq(str, Len(str) - Len(suffix) + 1, Len(str)) = suffix

\* str.split(): the maximal runs of characters other than the blank.
RECURSIVE SplitFrom(_, _, _)
SplitFrom(str, i, word) ==
    IF i > Len(str) THEN IF word = <<>> THEN <<>> ELSE <<word>>
    ELSE IF str[i] = " "
    THEN (IF word = <<>> THEN <<>> ELSE <<word>>) \o SplitFrom(str, i + 1, <<>>)
    ELSE SplitFrom(str, i + 1, Append(word, str[i]))

split(str) == SplitFrom(str, 1, <<>>)

\* str.strip()
RECURSIVE strip(_)
strip(str) ==
    IF str = <<>> THEN str
    ELSE IF Head(str) = " " THEN strip(Tail(str))
    ELSE IF str[Len(str)] = " " THEN strip(SubSeq(str, 1, Len(str) - 1))
    ELSE str

LIST_ALL_PHRASES ==
    {<<"l", "i", "s", "t", " ", "a", "l", "l">>,
     <<"s", "h", "o", "w", " ", "a", "l", "l">>,
     <<"a", "l", "l", " ", "s", "u", "p", "p", "l", "i", "e", "r", "s">>,
     <<"a", "l", "l", " ", "c", "o", "n", "t", "r", "a", "c", "t", "o", "r", "s">>,
     <<"c", "o", "m", "p", "a", "n", "i", "e", "s", " ", "t", "h", "a", "t", " ", "p", "r", "o", "v", "i", "d", "e">>}

LIST_ALL_WORDS ==
    {<<"s", "u", "p", "p", "l", "i", "e", "r", "s">>,
     <<"c", "o", "n", "t", "r", "a", "c", "t", "o", "r", "s">>}

NOT_A_SERVICE ==
    {<<"c", "o", "m", "p", "a", "n", "i", "e", "s">>,
     <<"a", "l", "l">>,
     <<"t", "h", "a", "t">>,
     <<"p", "r", "o", "v", "i", "d", "e">>,
     <<"s", "e", "r", "v", "i", "c", "e", "s">>,
     <<"n", "o", "n", "e">>,
     <<>>}

FALLBACK_MARKERS ==
    {<<"s", "u", "p", "p", "l", "i", "e", "r">>,
     <<"s", "u", "p", "p", "l", "i", "e", "r", "s">>,
     <<"c", "o", "n", "t", "r", "a", "c", "t", "o", "r">>,
     <<"c", "o", "n", "t", "r", "a", "c", "t", "o", "r", "s">>,
     <<"s", "e", "r", "v", "i", "c", "e", "s">>}

FALLBACK_SKIPPED ==
    {<<"t", "h", "a", "t">>,
     <<"p", "r", "o", "v", "i", "d", "e">>,
     <<"a", "l", "l">>}

project_keywords ==
    <<<<"r", "e", "g", "e", "n", "c", "y">>,
      <<"m", "i", "t", "c", "h", "e", "l", "l">>,
      <<"e", "m", "e", "r", "a", "l", "d">>,
      <<"p", "a", "r", "k", " ", "p", "l", "a", "c", "e">>>>

CONTACT_WORDS ==
    {<<"p", "h", "o", "n", "e">>,
     <<"n", "u", "m", "b", "e", "r">>,
     <<"e", "m", "a", "i", "l">>,
     <<"c", "o", "n", "t", "a", "c", "t">>}

\* The words the queries of the model are made of.
Vocabulary ==
    {<<"l", "i", "s", "t">>,
     <<"a", "l", "l">>,
     <<"s", "u", "p", "p", "l", "i", "e", "r", "s">>,
     <<"R", "e", "g", "e", "n", "c", "y">>,
     <<"p", "a", "r", "k">>,
     <<"p", "l", "a", "c", "e">>,
     <<"p", "h", "o", "n", "e">>,
     <<"d", "o", "o", "r">>}

MaxWords == 3

Queries ==
    {Join(ws) : ws \in UNION {[1..n -> Vocabulary] : n \in 1..MaxWords}}

\* What the language model answers to the service extraction prompt, or
\* that the call raises.
LlmFails == [raises |-> TRUE, content |-> <<>>]

LlmAnswers ==
    {LlmFails} \cup
    {[raises |-> FALSE, content |-> c] :
        c \in {<<"d", "o", "o", "r">>,
              <<" ", "D", "o", "o", "r", " ">>,
              <<"a", "l", "l">>,
              <<"e", "l", "e", "c", "t", "r", "i", "c">>,
              <<"d", "o", "o", "r", " ", "s", "u", "p", "p", "l", "i", "e", "r">>,
              <<>>}}

NoParams == [service |-> None, project |-> None]

\* The fallback of the service extraction: the word before the first
\* supplier/contractor/services word, unless it is a filler.
FallbackService(words) ==
    LET marks == {i \in DOMAIN words : words[i] \in FALLBACK_MARKERS}
    IN  IF marks = {} THEN None
        ELSE LET i == CHOOSE m \in marks : \A k \in marks : m <= k
             IN  IF i > 1 /\ words[i - 1] \notin FALLBACK_SKIPPED
                 THEN words[i - 1] ELSE None

\* Pattern 1: the list-all phrases, a trailing or separate "suppliers" or
\* "contractors".
ListAllPattern(query_lower) ==
    \/ \E phrase \in LIST_ALL_PHRASES : Within(phrase, query_lower)
    \/ \E w \in LIST_ALL_WORDS : endswith(query_lower, w)
    \/ \E w \in LIST_ALL_WORDS :
           \E i \in DOMAIN split(query_lower) : split(query_lower)[i] = w

\* The service parameter of a LIST_ALL query.
ListAllParams(query_lower, llm) ==
    IF llm.raises
    THEN [NoParams EXCEPT !.service = FallbackService(split(query_lower))]
    ELSE LET service == lower(strip(llm.content))
         IN  IF service \notin NOT_A_SERVICE
             THEN [NoParams EXCEPT !.service = service]
             ELSE NoParams

\* Pattern 2: the first project keyword of the list the query contains, or 0.
ProjectPattern(query_lower) ==
    LET matched == {k \in DOMAIN project_keywords :
                        Within(project_keywords[k], query_lower)}
    IN  IF matched = {} THEN 0 ELSE CHOOSE k \in matched : \A j \in matched : k <= j

\* Pattern 3: a contact word.
ContactPattern(query_lower) ==
    \E w \in CONTACT_WORDS : Within(w, query_lower)

\* A classifier that tests the project names before the list-all patterns.
classify_query_ProjectFirst(query, llm) ==
    LET query_lower == lower(query)
    IN  IF ProjectPattern(query_lower) # 0
        THEN [type |-> "FIND_BY_PROJECT",
              params |-> [NoParams EXCEPT
                  !.project = project_keywords[ProjectPattern(query_lower)]]]
        ELSE IF ListAllPattern(query_lower)
        THEN [type |-> "LIST_ALL", params |-> ListAllParams(query_lower, llm)]
        ELSE IF ContactPattern(query_lower)
        THEN [type |-> "GET_CONTACT", params |-> NoParams]
        ELSE [type |-> "GENERAL", params |-> NoParams]

\* classify_query: the query type and the extracted parameters.
classify_query(query, llm) ==
    LET query_lower == lower(query)
    IN  IF ListAllPattern(query_lower)
        THEN [type |-> "LIST_ALL", params |-> ListAllParams(query_lower, llm)]
        ELSE IF ProjectPattern(query_lower) # 0
        THEN [type |-> "FIND_BY_PROJECT",
              params |-> [NoParams EXCEPT
                  !.project = project_keywords[ProjectPattern(query_lower)]]]
        ELSE IF ContactPattern(query_lower)
        THEN [type |-> "GET_CONTACT", params |-> NoParams]
        ELSE [type |-> "GENERAL", params |-> NoParams]

ClassifyQuery ==
    /\ agentCall.op = "none"
    /\ \E query \in Queries, llm \in LlmAnswers :
        /\ agentCall' = [op |-> "classify", query |-> query, llm |-> llm,
                         out |-> classify_query(query, llm)]
        /\ UNCHANGED <<idxVars, syncVars, searchVars, chunkVars, limiterVars, feedVars>>

----------------------------------------------------------------------------
(* Directory agent: the company directory and the work history *)

FILTER_FETCH_LIMIT == 1000
TAG_FETCH_LIMIT == 200

\* A row of the Company collection.  A row with n > 1 stands for n
\* companies in a row, with n different names, the same services and the
\* same hired flag.
Company(name, services, hired) ==
    [company |-> name, n |-> 1, services |-> services, hired |-> hired]

Filler(n) ==
    IF n = 0 THEN <<>>
    ELSE <<[company |-> "filler", n |-> n, services |-> <<<<"p", "l", "u", "m", "b", "i", "n", "g">>>>,
            hired |-> FALSE]>>

FillerSizes == {0, 199, 999, 1000}

Rosters ==
    {<<>>,
     <<Company("A", <<<<"d", "o", "o", "r", "s">>>>, FALSE),
       Company("B", <<<<"E", "l", "e", "c", "t", "r", "i", "c">>>>, TRUE),
       Company("C", <<<<"g", "l", "a", "s", "s">>, <<"D", "o", "o", "r", "s">>>>, TRUE)>>,
     <<Company("C", <<<<"g", "l", "a", "s", "s">>, <<"D", "o", "o", "r", "s">>>>, TRUE),
       Company("A", <<<<"d", "o", "o", "r", "s">>>>, FALSE)>>}

\* The Company collection in its fetch order.
Directories == {Filler(n) \o rows : n \in FillerSizes, rows \in Rosters}

\* fetch_objects(limit=n) without filters: the first n companies.
RECURSIVE fetch_objects(_, _)
fetch_objects(rows, limit) ==
    IF limit = 0 \/ rows = <<>> THEN <<>>
    ELSE IF Head(rows).n <= limit
    THEN <<Head(rows)>> \o fetch_objects(Tail(rows), limit - Head(rows).n)
    ELSE <<[Head(rows) EXCEPT !.n = limit]>>

\* The variations search_companies_with_filter adds to a service term.
VARIATIONS ==
    <<[of |-> {<<"e", "l", "e", "c", "t", "r", "i", "c", "a", "l">>,
               <<"e", "l", "e", "c", "t", "r", "i", "c">>},
       add |-> <<<<"e", "l", "e", "c", "t", "r", "i", "c", "a", "l">>, <<"e", "l", "e", "c", "t", "r", "i", "c">>, <<"e", "l", "e", "c", "t", "r", "i", "c", "i", "a", "n">>>>],
      [of |-> {<<"c", "o", "n", "c", "r", "e", "t", "e">>,
               <<"f", "o", "u", "n", "d", "a", "t", "i", "o", "n">>},
       add |-> <<<<"c", "o", "n", "c", "r", "e", "t", "e">>, <<"f", "o", "u", "n", "d", "a", "t", "i", "o", "n">>, <<"c", "o", "n", "c", "r", "e", "t", "e", " ", "&", " ", "f", "o", "u", "n", "d", "a", "t", "i", "o", "n">>>>],
      [of |-> {<<"g", "l", "a", "s", "s">>,
               <<"w", "i", "n", "d", "o", "w", "s">>,
               <<"g", "l", "a", "z", "i", "n", "g">>},
       add |-> <<<<"g", "l", "a", "s", "s">>, <<"w", "i", "n", "d", "o", "w", "s">>, <<"g", "l", "a", "z", "i", "n", "g">>, <<"w", "i", "n", "d", "o", "w", "s", " ", "l", "a", "b", "o", "r">>, <<"m", "i", "r", "r", "o", "r", "s">>>>],
      [of |-> {<<"r", "o", "o", "f", "i", "n", "g">>,
               <<"r", "o", "o", "f">>},
       add |-> <<<<"r", "o", "o", "f", "i", "n", "g">>, <<"r", "o", "o", "f">>, <<"r", "o", "o", "f", " ", "l", "a", "b", "o", "r">>, <<"r", "o", "o", "f", " ", "m", "a", "t", "e", "r", "i", "a", "l">>>>]>>

\* list(set(terms)): the terms without duplicates, in the order of first
\* occurrence or in the opposite order (the order of a set is not fixed).
RECURSIVE Distinct(_)
Distinct(seq) ==
    IF seq = <<>> THEN <<>>
    ELSE LET rest == Distinct(SubSeq(seq, 1, Len(seq) - 1))
             x == seq[Len(seq)]
         IN  IF \E i \in DOMAIN rest : rest[i] = x THEN rest ELSE Append(rest, x)

Reversed(seq) == [i \in DOMAIN seq |-> seq[Len(seq) + 1 - i]]

search_terms(service, backwards) ==
    LET own == lower(service)
        hit == {k \in DOMAIN VARIATIONS : own \in VARIATIONS[k].of}
        terms == Distinct(<<own>> \o
                     (IF hit = {} THEN <<>>
                      ELSE VARIATIONS[CHOOSE k \in hit : TRUE].add))
    IN  IF backwards THEN Reversed(terms) ELSE terms

\* any(term.lower() in str(svc).lower() for svc in services)
service_match(term, services) ==
    \E i \in DOMAIN services : Within(lower(term), lower(services[i]))

\* The result built for a company row.
CompanyResult(row) ==
    [company |-> row.company, n |-> row.n, services |-> row.services,
     hired |-> row.hired, contact |-> "known", score |-> -1]

\* The rows of `fetched` taken for one term: those that match and whose
\* company was not taken before.
RECURSIVE TakeMatching(_, _, _)
TakeMatching(fetched, taken, term) ==
    IF fetched = <<>> THEN taken
    ELSE LET row == Head(fetched)
             seen == \E i \in DOMAIN taken : taken[i].company = row.company
         IN  TakeMatching(Tail(fetched),
                          IF service_match(term, row.services) /\ ~seen
                          THEN Append(taken, CompanyResult(row)) ELSE taken,
                          term)

RECURSIVE FilterLoop(_, _, _)
FilterLoop(terms, fetched, taken) ==
    IF terms = <<>> THEN taken
    ELSE FilterLoop(Tail(terms), fetched, TakeMatching(fetched, taken, Head(terms)))

\* list.sort(key=hired, reverse=True): hired companies first, the order
\* otherwise kept.
HiredFirst(results) ==
    SelectSeq(results, LAMBDA r : r.hired) \o SelectSeq(results, LAMBDA r : ~r.hired)

\* search_companies_with_filter.  raises: every fetch of the Company
\* collection raises; backwards: the iteration order of the term set.
search_companies_with_filter(service, directory, raises, backwards) ==
    IF raises THEN <<>>
    ELSE HiredFirst(FilterLoop(
             search_terms(service, backwards),
             fetch_objects(directory, FILTER_FETCH_LIMIT),
             <<>>))

\* search_companies_by_exact_tags: a company is taken for a tag that is one
\* of its services.
RECURSIVE TakeTagged(_, _, _)
TakeTagged(fetched, taken, tag) ==
    IF fetched = <<>> THEN taken
    ELSE LET row == Head(fetched)
             seen == \E i \in DOMAIN taken : taken[i].company = row.company
             tagged == \E i \in DOMAIN row.services : row.services[i] = tag
         IN  TakeTagged(Tail(fetched),
                        IF tagged /\ ~seen
                        THEN Append(taken, CompanyResult(row)) ELSE taken,
                        tag)

RECURSIVE TagLoop(_, _, _)
TagLoop(tags, fetched, taken) ==
    IF tags = <<>> THEN taken
    ELSE TagLoop(Tail(tags), fetched, TakeTagged(fetched, taken, Head(tags)))

search_companies_by_exact_tags(tags, directory, raises) ==
    IF raises THEN <<>>
    ELSE HiredFirst(TagLoop(tags, fetch_objects(directory, TAG_FETCH_LIMIT), <<>>))

\* No company: the None search_company_exact answers.
NoCompany == [company |-> "", n |-> 0, services |-> <<>>, hired |-> FALSE]

\* A lookup that finds no company.
search_company_exact_NeverFound(company_name, directory, raises) == NoCompany

\* search_company_exact: the first company of that name, or None; None too
\* when the query raises.
search_company_exact(company_name, directory, raises) ==
    LET found == {i \in DOMAIN directory : directory[i].company = company_name}
    IN  IF raises \/ found = {} THEN NoCompany
        ELSE directory[CHOOSE i \in found : \A j \in found : i <= j]

\* A result without a "score" key.
NoScore == -1

\* x.get("score", 0)
ScoreOf(r) == IF r.score = NoScore THEN 0 ELSE r.score

\* sorted(items, key=Key, reverse=True): descending, equal keys in their
\* former order.
StableDescending(items, Key(_)) ==
    LET Before(j, i) ==
            \/ Key(items[j]) > Key(items[i])
            \/ Key(items[j]) = Key(items[i]) /\ j < i
        Rank(i) == 1 + Cardinality({j \in DOMAIN items : Before(j, i)})
    IN  [p \in DOMAIN items |-> items[CHOOSE i \in DOMAIN items : Rank(i) = p]]

ByScore(items) == StableDescending(items, ScoreOf)

\* The work-history hits of a project: company name (possibly empty) and
\* relevance score.
WorklogHit(company, score) == [company |-> company, score |-> score]

WorklogHits ==
    {WorklogHit("A", 1), WorklogHit("A", 3), WorklogHit("Z", 2), WorklogHit("", 3)}

MaxWorklogHits == 2

WorklogAnswers == UNION {[1..n -> WorklogHits] : n \in 0..MaxWorklogHits}

\* search_worklogs_by_project: the hits carry a score when the query
\* embedding was made (hybrid search) and none otherwise (filter only).
search_worklogs_by_project(answer, embedded) ==
    [i \in DOMAIN answer |->
        [answer[i] EXCEPT !.score = IF embedded THEN @ ELSE NoScore]]

CONTACT_UNAVAILABLE == "(Contact information not available in WorkLog)"

\* The result of one work-history hit: the directory's data when the
\* lookup answered, the hit's own data otherwise.
Enriched(hit, company_info) ==
    IF company_info # NoCompany
    THEN [company |-> company_info.company, n |-> 1,
          services |-> company_info.services, hired |-> FALSE,
          contact |-> "known", score |-> hit.score]
    ELSE [company |-> hit.company, n |-> 1, services |-> <<>>, hired |-> FALSE,
          contact |-> CONTACT_UNAVAILABLE, score |-> ScoreOf(hit)]

\* The enrichment loop of FIND_BY_PROJECT over the sorted hits.
RECURSIVE EnrichLoop(_, _, _, _)
EnrichLoop(hits, results, directory, raises) ==
    IF hits = <<>> THEN results
    ELSE LET company == Head(hits).company
             known == \E i \in DOMAIN results : results[i].from = company
         IN  EnrichLoop(Tail(hits),
                 IF company # "" /\ ~known
                 THEN Append(results,
                          [from |-> company,
                           entry |-> Enriched(Head(hits),
                               search_company_exact(company, directory, raises))])
                 ELSE results,
                 directory, raises)

find_by_project(answer, embedded, directory, raises) ==
    LET worklog_results == ByScore(search_worklogs_by_project(answer, embedded))
        looked == EnrichLoop(worklog_results, <<>>, directory, raises)
    IN  [i \in DOMAIN looked |-> looked[i].entry]

\* The merged hits of the hybrid search over both collections.
HybridHit(company, score) ==
    [company |-> company, n |-> 1, services |-> <<>>, hired |-> FALSE,
     contact |-> "known", score |-> score]

MaxHybridHits == 4

HybridPool ==
    <<HybridHit("A", 1), HybridHit("B", 3), HybridHit("C", 2), HybridHit("D", 1),
      HybridHit("E", 3), HybridHit("F", 2)>>

HybridAnswers ==
    {SubSeq(HybridPool, 1, Min2(n, Len(HybridPool))) : n \in 0..MaxHybridHits}

\* search_hybrid: the merged hits by descending score, cut at limit.
search_hybrid(merged, limit) ==
    SubSeq(ByScore(merged), 1, Min2(limit, Len(merged)))

CONTACT_LIMIT == 3
GENERAL_LIMIT == 10
RERANK_DEFAULT == 5

\* str.count(sub)
RECURSIVE count(_, _)
count(str, sub) ==
    IF Len(str) < Len(sub) THEN 0
    ELSE IF SubSeq(str, 1, Len(sub)) = sub
    THEN 1 + count(SubSeq(str, Len(sub) + 1, Len(str)), sub)
    ELSE count(Tail(str), sub)

\* str.replace(sub, '')
RECURSIVE remove(_, _)
remove(str, sub) ==
    IF Len(str) < Len(sub) THEN str
    ELSE IF SubSeq(str, 1, Len(sub)) = sub
    THEN remove(SubSeq(str, Len(sub) + 1, Len(str)), sub)
    ELSE <<Head(str)>> \o remove(Tail(str), sub)

\* The search limit of GET_CONTACT.
contact_limit(query) ==
    LET company_count == count(query, <<",">>) + count(query, <<" ", "&", " ">>) + 1
    IN  IF company_count > 3 THEN Min2(company_count + 2, 20) ELSE CONTACT_LIMIT

\* The reranker: not configured, raising, or answering the top_k in the
\* opposite order of the list it was given.
Rerankers == {"none", "fails", "reverses"}

\* A reranking that hands back every result when the reranker raises.
rerank_results_AllOnFailure(results, top_k, voyage) ==
    IF voyage = "none" \/ results = <<>>
    THEN SubSeq(results, 1, Min2(top_k, Len(results)))
    ELSE IF voyage = "fails" THEN results
    ELSE SubSeq(Reversed(results), 1, Min2(top_k, Len(results)))

\* rerank_results
rerank_results(results, top_k, voyage) ==
    IF voyage = "none" \/ results = <<>>
    THEN SubSeq(results, 1, Min2(top_k, Len(results)))
    ELSE IF voyage = "fails"
    THEN SubSeq(results, 1, Min2(top_k, Len(results)))
    ELSE SubSeq(Reversed(results), 1, Min2(top_k, Len(results)))

\* filter_by_score_threshold
filter_by_score_threshold(results, min_score) ==
    IF results = <<>> \/ results[1].score = NoScore THEN results
    ELSE SelectSeq(results, LAMBDA r : ScoreOf(r) >= min_score)

\* Stage 2 of search for a LIST_ALL query.
list_all(service, directory, raises, backwards) ==
    IF service = None \/ service = <<>> THEN <<>>
    ELSE LET Cleaned(term) ==
                 search_companies_with_filter(strip(remove(lower(service), term)),
                                              directory, raises, backwards)
             Found(results) ==
                 IF results # <<>> THEN results
                 ELSE IF Within(<<"s", "u", "p", "p", "l", "i", "e", "r">>, lower(service))
                 THEN Cleaned(<<"s", "u", "p", "p", "l", "i", "e", "r">>)
                 ELSE IF Within(<<"c", "o", "n", "t", "r", "a", "c", "t", "o", "r">>, lower(service))
                 THEN Cleaned(<<"c", "o", "n", "t", "r", "a", "c", "t", "o", "r">>)
                 ELSE results
         IN  Found(search_companies_with_filter(service, directory, raises,
                                                backwards))

\* The inputs of one search: the query, the answers of the language model
\* (service term, service tags), the stores, the backend faults and the
\* caller's min_score and max_results (0 stands for None).
NoInput ==
    [llm |-> LlmFails, tags |-> <<>>, directory |-> <<>>, raises |-> FALSE,
     backwards |-> FALSE, worklog |-> <<>>, embedded |-> TRUE, hybrid |-> <<>>]

\* Stage 2 of search: the results of the query type's strategy.
execute(query, c, inp) ==
    IF c.type = "LIST_ALL"
    THEN list_all(c.params.service, inp.directory, inp.raises, inp.backwards)
    ELSE IF c.type = "FIND_BY_PROJECT"
    THEN find_by_project(inp.worklog, inp.embedded, inp.directory, inp.raises)
    ELSE IF c.type = "GET_CONTACT"
    THEN search_hybrid(inp.hybrid, contact_limit(query))
    ELSE IF inp.tags # <<>>
    THEN search_companies_by_exact_tags(inp.tags, inp.directory, inp.raises)
    ELSE search_hybrid(inp.hybrid, GENERAL_LIMIT)

\* Stage 3 of search: reranking, score filter, limit.
validate(type, found, voyage, min_score, max_results) ==
    LET reranks == voyage # "none" /\ type # "LIST_ALL"
        rerank_k == IF max_results # 0 THEN max_results ELSE RERANK_DEFAULT
        top_k == Min2(rerank_k * 2, Len(found))
        Limited(results) ==
            IF type # "LIST_ALL" /\ max_results # 0 /\ Len(results) > max_results
            THEN SubSeq(IF \E i \in DOMAIN results : results[i].score # NoScore
                        THEN ByScore(results) ELSE results,
                        1, max_results)
            ELSE results
        Filtered(results, reranked) ==
            IF min_score > 0 /\ results = <<>>
            THEN [answer |-> "below threshold", results |-> <<>>,
                  reranked |-> reranked]
            ELSE [answer |-> "context", results |-> Limited(results),
                  reranked |-> reranked]
        Reranked(reranked) ==
            Filtered(IF min_score > 0
                     THEN filter_by_score_threshold(reranked, min_score)
                     ELSE reranked, reranked)
        Staged(s) ==
            [answer |-> s.answer, results |-> s.results, reranked |-> s.reranked,
             found |-> found,
             rerank_calls |-> IF reranks /\ found # <<>> THEN 1 ELSE 0,
             rerank_top_k |-> top_k]
    IN  IF found = <<>>
        THEN Staged([answer |-> "none found", results |-> <<>>, reranked |-> <<>>])
        ELSE Staged(Reranked(IF reranks THEN rerank_results(found, top_k, voyage)
                             ELSE found))

\* search of the directory agent: classification, execution, validation.
agent_search(query, inp, voyage, min_score, max_results) ==
    LET Executed(c) ==
            [type |-> c.type, params |-> c.params,
             out |-> validate(c.type, execute(query, c, inp), voyage, min_score,
                              max_results)]
    IN  Executed(classify_query(query, inp.llm))

\* The queries of the model's searches, one or two of each type.
SearchQueries ==
    {<<"d", "o", "o", "r", " ", "s", "u", "p", "p", "l", "i", "e", "r", "s">>,
     <<"l", "i", "s", "t", " ", "a", "l", "l", " ", "R", "e", "g", "e", "n", "c", "y">>,
     <<"R", "e", "g", "e", "n", "c", "y", " ", "d", "o", "o", "r">>,
     <<"p", "h", "o", "n", "e", " ", "d", "o", "o", "r">>,
     <<"d", "o", "o", "r">>}

\* What the language model answers to the tag mapping prompt.
TagAnswers == {<<>>, <<<<"D", "o", "o", "r", "s">>>>}

MinScores == {0, 2}

\* max_results: None (0) or a size.
MaxResults == {0, 1, 2}

Searched(query, inp, voyage, min_score, max_results) ==
    /\ \E r \in {agent_search(query, inp, voyage, min_score, max_results)} :
           agentCall' = [op |-> "search", query |-> query, inp |-> inp,
                         voyage |-> voyage, min_score |-> min_score,
                         max_results |-> max_results, type |-> r.type,
                         params |-> r.params, out |-> r.out]
    /\ UNCHANGED <<idxVars, syncVars, searchVars, chunkVars, limiterVars, feedVars>>

\* A search.  The inputs the query type's strategy does not read stay at
\* their defaults.
AgentSearch ==
    /\ agentCall.op = "none"
    /\ \E query \in SearchQueries, llm \in LlmAnswers, voyage \in Rerankers,
          min_score \in MinScores, max_results \in MaxResults :
        \E type \in {classify_query(query, llm).type} :
            \/ /\ type = "LIST_ALL"
               /\ \E directory \in Directories, raises \in BOOLEAN,
                     backwards \in BOOLEAN :
                      Searched(query,
                               [NoInput EXCEPT !.llm = llm, !.directory = directory,
                                               !.raises = raises,
                                               !.backwards = backwards],
                               voyage, min_score, max_results)
            \/ /\ type = "FIND_BY_PROJECT"
               /\ llm = LlmFails
               /\ \E directory \in Rosters, raises \in BOOLEAN,
                     worklog \in WorklogAnswers, embedded \in BOOLEAN :
                      Searched(query,
                               [NoInput EXCEPT !.directory = directory,
                                               !.raises = raises,
                                               !.worklog = worklog,
                                               !.embedded = embedded],
                               voyage, min_score, max_results)
            \/ /\ type = "GET_CONTACT"
               /\ llm = LlmFails
               /\ \E hybrid \in HybridAnswers :
                      Searched(query, [NoInput EXCEPT !.hybrid = hybrid],
                               voyage, min_score, max_results)
            \/ /\ type = "GENERAL"
               /\ llm = LlmFails
               /\ \E tags \in TagAnswers, directory \in Directories,
                     hybrid \in HybridAnswers :
                      /\ tags = <<>> => directory = <<>>
                      /\ tags # <<>> => hybrid = <<>>
                      /\ Searched(query,
                                  [NoInput EXCEPT !.tags = tags,
                                                  !.directory = directory,
                                                  !.hybrid = hybrid],
                                  voyage, min_score, max_results)

NextAgent ==
    \/ ClassifyQuery
    \/ AgentSearch

SpecAgent == InitIndex /\ [][NextAgent]_vars

----------------------------------------------------------------------------
(* chunk_text, one iteration of its loop at a time *)

MaxDots == 2

MaxWindows == 12

ChunkLens == {0, 1, 700, 1000, 1001, 1500, 1502, 2600}

ChunkDots == {0, 300, 500, 501, 999, 1000, 1300, 1301, 1800, 2599}

\* The texts chunk_text is called with: a length and the positions of
\* the '.' characters.
ChunkTexts ==
    {t \in {[len |-> l, dots |-> D] :
                l \in ChunkLens,
                D \in {E \in SUBSET ChunkDots : Cardinality(E) <= MaxDots}} :
        \A d \in t.dots : d < t.len}

\* chunks = [], start = 0, text_length = len(text)
ChunkTextCall ==
    /\ chunkCall.op = "none"
    /\ \E text \in ChunkTexts :
           chunkCall' = [op |-> "chunk_text", pc |-> "loop", text |-> text,
                         start |-> 0, windows |-> <<>>]
    /\ UNCHANGED <<idxVars, syncVars, searchCall, agentVars, limiterVars, feedVars>>

\* One iteration of `while start < text_length`.
ChunkLoop ==
    /\ chunkCall.op = "chunk_text"
    /\ chunkCall.pc = "loop"
    /\ chunkCall.start < chunkCall.text.len
    /\ Len(chunkCall.windows) < MaxWindows
    /\ \E end \in {ChunkEnd(chunkCall.text, chunkCall.start, CHUNK_SIZE)} :
           chunkCall' =
               [chunkCall EXCEPT
                   !.windows = Append(@, [from |-> chunkCall.start, to |-> end]),
                   !.start = IF end < chunkCall.text.len
                             THEN end - CHUNK_OVERLAP
                             ELSE chunkCall.text.len]
    /\ UNCHANGED <<idxVars, syncVars, searchCall, agentVars, limiterVars, feedVars>>

\* return chunks
ChunkReturn ==
    /\ chunkCall.op = "chunk_text"
    /\ chunkCall.pc = "loop"
    /\ chunkCall.start >= chunkCall.text.len
    /\ chunkCall' = [chunkCall EXCEPT !.pc = "done"]
    /\ UNCHANGED <<idxVars, syncVars, searchCall, agentVars, limiterVars, feedVars>>

NextChunk ==
    \/ ChunkTextCall
    \/ ChunkLoop
    \/ ChunkReturn

\* A call of chunk_text that has started keeps running.
SpecChunk == InitIndex /\ [][NextChunk]_vars /\ WF_vars(ChunkLoop \/ ChunkReturn)

----------------------------------------------------------------------------
(* RateLimiter: is_allowed and wait_if_needed, one step of a thread at a time *)

\* The limiter's max_calls and time_window, and the last clock reading of
\* the model.
max_calls == 2

time_window == 2

MaxClock == 3

\* `with self._lock` lets a thread in when no thread holds the lock.
\* Unlocked: a limiter without the lock.
Unlocked(lock) == TRUE

Acquirable(lock) == lock = Free

\* The bucket a call uses.
Bucket(identifier) == identifier

OtherVarsUnchanged ==
    UNCHANGED <<idxVars, syncVars, searchCall, agentVars, chunkVars, feedVars>>

\* time.time() moves on, at any moment.
ClockTick ==
    /\ time < MaxClock
    /\ time' = time + 1
    /\ UNCHANGED <<_calls, _lock, thread, granted>>
    /\ OtherVarsUnchanged

\* A thread calls is_allowed(identifier), or wait_if_needed(identifier).
CallIsAllowed(t) ==
    /\ thread[t].pc = "idle"
    /\ \E identifier \in Identifiers, wait \in BOOLEAN :
           thread' = [thread EXCEPT ![t] = [Idle EXCEPT !.pc = "acquire",
                                                       !.identifier = identifier,
                                                       !.wait = wait]]
    /\ UNCHANGED <<_calls, _lock, time, granted>>
    /\ OtherVarsUnchanged

\* with self._lock:
Acquire(t) ==
    /\ thread[t].pc = "acquire"
    /\ Acquirable(_lock)
    /\ _lock' = t
    /\ thread' = [thread EXCEPT ![t].pc = "clock"]
    /\ UNCHANGED <<_calls, time, granted>>
    /\ OtherVarsUnchanged

\* now = time.time(); calls = self._calls[identifier]
ReadClock(t) ==
    /\ thread[t].pc = "clock"
    /\ thread' = [thread EXCEPT ![t].pc = "prune", ![t].now = time]
    /\ UNCHANGED <<_calls, _lock, time, granted>>
    /\ OtherVarsUnchanged

\* while calls and calls[0] <= now - self.time_window: calls.popleft()
Prune(t) ==
    /\ thread[t].pc = "prune"
    /\ \E b \in {Bucket(thread[t].identifier)} :
           IF _calls[b] # <<>> /\ _calls[b][1] <= thread[t].now - time_window
           THEN /\ _calls' = [_calls EXCEPT ![b] = Tail(@)]
                /\ UNCHANGED thread
           ELSE /\ thread' = [thread EXCEPT ![t].pc = "check"]
                /\ UNCHANGED _calls
    /\ UNCHANGED <<_lock, time, granted>>
    /\ OtherVarsUnchanged

\* if len(calls) < self.max_calls: ... ; return False
Check(t) ==
    /\ thread[t].pc = "check"
    /\ IF Len(_calls[Bucket(thread[t].identifier)]) < max_calls
       THEN thread' = [thread EXCEPT ![t].pc = "append"]
       ELSE thread' = [thread EXCEPT ![t].pc = "release", ![t].ret = FALSE]
    /\ UNCHANGED <<_calls, _lock, time, granted>>
    /\ OtherVarsUnchanged

\* calls.append(now); return True
AppendCall(t) ==
    /\ thread[t].pc = "append"
    /\ _calls' = [_calls EXCEPT ![Bucket(thread[t].identifier)] =
                                      Append(@, thread[t].now)]
    /\ granted' = [granted EXCEPT ![thread[t].identifier] =
                                      Append(@, thread[t].now)]
    /\ thread' = [thread EXCEPT ![t].pc = "release", ![t].ret = TRUE]
    /\ UNCHANGED <<_lock, time>>
    /\ OtherVarsUnchanged

\* The end of the with block and the return; wait_if_needed calls
\* is_allowed again after a False.
Release(t) ==
    /\ thread[t].pc = "release"
    /\ _lock' = Free
    /\ thread' = [thread EXCEPT ![t] =
                      IF thread[t].wait /\ ~thread[t].ret
                      THEN [@ EXCEPT !.pc = "acquire", !.now = 0]
                      ELSE Idle]
    /\ UNCHANGED <<_calls, time, granted>>
    /\ OtherVarsUnchanged

NextLimiter ==
    \/ ClockTick
    \/ \E t \in Threads :
           \/ CallIsAllowed(t)
           \/ Acquire(t)
           \/ ReadClock(t)
           \/ Prune(t)
           \/ Check(t)
           \/ AppendCall(t)
           \/ Release(t)

SpecLimiter == InitIndex /\ [][NextLimiter]_vars

----------------------------------------------------------------------------
(* A sync run, one entry of the listing generator at a time *)

\* The generator has yielded every entry it had; its next resumption runs
\* the code after its loops.
Exhausted_AfterFirst(pos, entries) == pos >= 1 \/ pos = Len(entries)

Exhausted(pos, entries) == pos = Len(entries)

\* What the generator of a run will do: the entries it yields, what it
\* stores as cursor when it is resumed after the last of them, and whether
\* that resumption raises.
InitialPlan(lf) ==
    LET Planned(l) == [entries |-> l.entries, cursor |-> l.cursor,
                       error |-> FALSE, full |-> TRUE]
    IN  Planned(list_folder(remote, serverLog, cursors, lf))

IncrementalPlan(lf) ==
    LET Planned(l) == [entries |-> l.entries, cursor |-> l.cursor,
                       error |-> l.error, full |-> l.full]
    IN  Planned(list_folder_changes(remote, serverLog, cursors, expired, lf))

\* perform_initial_sync or perform_incremental_sync starts: the for loop
\* creates the generator.  feedRun.handedIdx, fullAt, last, before and
\* again record the history of the runs.
FeedStart ==
    /\ feedRun.pc = "idle"
    /\ feedRun.seq < MaxRuns
    /\ \E kind \in {"initial", "incremental"}, lf \in ListFaults :
           /\ kind = "initial" => lf.contFails = 0
           /\ \E plan \in {IF kind = "initial" THEN InitialPlan(lf)
                                                ELSE IncrementalPlan(lf)} :
                  feedRun' = [pc |-> "running", seq |-> feedRun.seq + 1,
                              last |-> feedRun.last, before |-> feedRun.before,
                              again |-> FALSE,
                              handedIdx |-> feedRun.handedIdx,
                              fullAt |-> feedRun.fullAt,
                              kind |-> kind, plan |-> plan, pos |-> 0,
                              handed |-> <<>>,
                              stats |-> IF kind = "initial" THEN InitialStats
                                                            ELSE IncrementalStats,
                              cursorBefore |-> cursors, remote0 |-> remote,
                              logLen |-> Len(serverLog), t |-> now]
    /\ UNCHANGED <<idxVars, syncVars, searchCall, agentVars, chunkVars,
                   limiterVars>>

\* The index of the server's log that the next entry of an incremental
\* feed stands for, 0 for an entry of a full listing.
LogIndex(run) == IF run.plan.full THEN 0 ELSE run.cursorBefore + run.pos + 1

\* The loop asks for the next entry and the generator yields one: the
\* body of the loop runs on it.
FeedHand ==
    /\ feedRun.pc = "running"
    /\ ~Exhausted(feedRun.pos, feedRun.plan.entries)
    /\ \E entry \in {feedRun.plan.entries[feedRun.pos + 1]} :
       \E acc \in {IF feedRun.kind = "initial"
                   THEN InitialStep([docs |-> docs, chunks |-> chunks,
                                     stats |-> feedRun.stats],
                                    entry, remote, NoRunFault)
                   ELSE IncrementalStep([docs |-> docs, chunks |-> chunks,
                                         stats |-> feedRun.stats],
                                        entry, remote, NoRunFault)} :
           /\ docs' = acc.docs
           /\ chunks' = acc.chunks
           /\ feedRun' = [feedRun EXCEPT
                  !.pos = @ + 1,
                  !.handed = Append(@, entry),
                  !.stats = acc.stats,
                  !.again = @ \/ LogIndex(feedRun) \in feedRun.handedIdx,
                  !.handedIdx = IF feedRun.plan.full THEN @
                                ELSE @ \cup {LogIndex(feedRun)}]
    /\ UNCHANGED <<lastOp, calls, syncVars, searchCall, agentVars, chunkVars,
                   limiterVars>>

\* The run ended: what is kept of it.
Ended(how) ==
    [pc |-> "idle", seq |-> feedRun.seq, last |-> how, before |-> feedRun.last,
     again |-> feedRun.again, handedIdx |-> feedRun.handedIdx,
     fullAt |-> IF how = "completed" /\ feedRun.plan.full
                     /\ feedRun.handed = SnapshotEntries(feedRun.remote0)
                THEN feedRun.fullAt \cup {feedRun.logLen}
                ELSE feedRun.fullAt]

\* The loop asks for the next entry and the generator has none: the code
\* after the generator's loops runs (the cursor is stored, or the listing
\* error is logged, or raised into the run), and then the code after the
\* loop of the run (the sync state is written).
FeedFinish ==
    /\ feedRun.pc = "running"
    /\ Exhausted(feedRun.pos, feedRun.plan.entries)
    /\ IF feedRun.plan.error
       THEN /\ feedRun' = Ended("listing_error")
            /\ UNCHANGED <<cursors, expired, sync_state>>
       ELSE /\ cursors' = feedRun.plan.cursor
            /\ expired' = IF feedRun.plan.cursor # cursors THEN FALSE ELSE expired
            /\ sync_state' =
                   _save_sync_state(sync_state,
                       IF feedRun.kind = "initial"
                       THEN [last_sync |-> now,
                             total_indexed |-> feedRun.stats.files_indexed,
                             history |-> Append(sync_state.history,
                                                [started_at |-> feedRun.t,
                                                 run |-> "initial"])]
                       ELSE [last_sync |-> now,
                             total_indexed |-> sync_state.total_indexed,
                             history |-> SelectSeq(
                                 Append(sync_state.history,
                                        [started_at |-> feedRun.t,
                                         run |-> "incremental"]),
                                 LAMBDA h : h.started_at
                                                > now - timedelta(HISTORY_DAYS))])
            /\ feedRun' = Ended("completed")
    /\ UNCHANGED <<idxVars, remote, serverLog, now, lastRun, searchCall,
                   agentVars, chunkVars, limiterVars>>

\* The run stops where it is: the process dies, or the body of the loop
\* raises and the except clause of the run returns.
FeedStop ==
    /\ feedRun.pc = "running"
    /\ \E how \in {"crash", "exception"} : feedRun' = Ended(how)
    /\ UNCHANGED <<idxVars, syncVars, searchCall, agentVars, chunkVars,
                   limiterVars>>

NextFeed ==
    \/ Upload
    \/ Remove
    \/ ExpireCursor
    \/ FeedStart
    \/ FeedHand
    \/ FeedFinish
    \/ FeedStop

SpecFeed == InitSync /\ [][NextFeed]_vars

----------------------------------------------------------------------------
(* Directory agent: claims *)

\* The query types in their priority order.
PRIORITY == <<"LIST_ALL", "FIND_BY_PROJECT", "GET_CONTACT", "GENERAL">>

\* Which types' patterns the query matches; GENERAL matches every query.
Matches(query) ==
    LET q == lower(query)
    IN  <<ListAllPattern(q), ProjectPattern(q) # 0, ContactPattern(q), TRUE>>

\* C22: classify_query answers the earliest type of the priority order
\* LIST_ALL, FIND_BY_PROJECT, GET_CONTACT, GENERAL whose pattern the query
\* matches, whatever later patterns it also matches, and GENERAL when it
\* matches none of the first three.
C22_FirstMatchWins ==
    agentCall.op = "classify" =>
        LET m == Matches(agentCall.query)
            first == CHOOSE i \in 1..4 : m[i] /\ \A j \in 1..(i - 1) : ~m[j]
        IN  agentCall.out.type = PRIORITY[first]

C22_Witness ==
    /\ agentCall.op = "classify"
    /\ Matches(agentCall.query) = <<TRUE, TRUE, TRUE, TRUE>>
    /\ agentCall.out.type = "LIST_ALL"

\* The number of companies a list of rows or results stands for.
RECURSIVE CompaniesIn(_)
CompaniesIn(rows) ==
    IF rows = <<>> THEN 0 ELSE Head(rows).n + CompaniesIn(Tail(rows))

\* The rows of the directory with a service tag that contains the term or
\* one of its variations, whatever the case of the letters.
MatchingRows(service, directory) ==
    LET terms == search_terms(service, FALSE)
    IN  SelectSeq(directory,
                  LAMBDA row : \E k \in DOMAIN terms :
                                   service_match(terms[k], row.services))

\* The last call was a LIST_ALL search with a service term of which the
\* directory has companies, and no fetch of the directory raised.
ListAllCase ==
    /\ agentCall.op = "search"
    /\ agentCall.type = "LIST_ALL"
    /\ agentCall.params.service # None
    /\ ~agentCall.inp.raises
    /\ MatchingRows(agentCall.params.service, agentCall.inp.directory) # <<>>

\* C23: a LIST_ALL search whose service term matches N companies of the
\* directory returns all N of them, whatever min_score, max_results and the
\* reranker are; the reranker is not called and no hired company comes
\* after a company that is not hired.
C23_ListAllReturnsEveryMatch ==
    ListAllCase =>
        LET results == agentCall.out.results
        IN  /\ CompaniesIn(results) =
                   CompaniesIn(MatchingRows(agentCall.params.service,
                                            agentCall.inp.directory))
            /\ agentCall.out.rerank_calls = 0
            /\ \A i, j \in DOMAIN results :
                   i < j /\ results[j].hired => results[i].hired

\* The distinct non-empty company names among the work-history hits.
HitCompanies(worklog) ==
    {worklog[i].company : i \in DOMAIN worklog} \ {""}

InDirectory(name, directory) ==
    \E i \in DOMAIN directory : directory[i].company = name

\* C24: the results of a FIND_BY_PROJECT search before reranking have
\* exactly one entry for each distinct non-empty company name of the
\* work-history hits: with the directory's data when the company is in the
\* directory and its lookup answered, and built from the hit and marked as
\* contact unavailable otherwise.
C24_OneEntryPerWorklogCompany ==
    (agentCall.op = "search" /\ agentCall.type = "FIND_BY_PROJECT") =>
        LET found == agentCall.out.found
            names == HitCompanies(agentCall.inp.worklog)
            directory == agentCall.inp.directory
        IN  /\ Len(found) = Cardinality(names)
            /\ \A name \in names :
                   \E i \in DOMAIN found :
                       /\ found[i].company = name
                       /\ \A j \in DOMAIN found : found[j].company = name => j = i
                       /\ IF InDirectory(name, directory) /\ ~agentCall.inp.raises
                          THEN /\ found[i].contact = "known"
                               /\ \E k \in DOMAIN directory :
                                      /\ directory[k].company = name
                                      /\ directory[k].services = found[i].services
                          ELSE found[i].contact = CONTACT_UNAVAILABLE

C24_Witness ==
    /\ agentCall.op = "search"
    /\ agentCall.type = "FIND_BY_PROJECT"
    /\ Len(agentCall.out.found) = 2
    /\ \E i \in 1..2 : agentCall.out.found[i].contact = "known"
    /\ \E i \in 1..2 : agentCall.out.found[i].contact = CONTACT_UNAVAILABLE

\* The last call was a search of another type than LIST_ALL with a
\* reranker configured, a requested size and results to rerank.
RerankCase ==
    /\ agentCall.op = "search"
    /\ agentCall.type # "LIST_ALL"
    /\ agentCall.voyage # "none"
    /\ agentCall.max_results >= 1
    /\ agentCall.out.found # <<>>

\* C26: in a search that is not LIST_ALL, with a reranker and a requested
\* size m, the reranker is asked once for the top N = min(2m, number of
\* results) and N results leave the reranking; when the reranker fails
\* they are the first N results as they were; the list search returns has
\* at most m entries.
C26_RerankTwiceTheSizeThenTruncate ==
    RerankCase =>
        LET out == agentCall.out
            m == agentCall.max_results
            N == Min2(2 * m, Len(out.found))
        IN  /\ out.rerank_calls = 1
            /\ out.rerank_top_k = N
            /\ Len(out.reranked) = N
            /\ agentCall.voyage = "fails" => out.reranked = SubSeq(out.found, 1, N)
            /\ Len(out.results) <= m

C26_Witness ==
    /\ RerankCase
    /\ agentCall.voyage = "fails"
    /\ Len(agentCall.out.found) > 2 * agentCall.max_results
    /\ Len(agentCall.out.reranked) = 2 * agentCall.max_results
    /\ Len(agentCall.out.results) = agentCall.max_results

\* What C27 says of the windows chunk_text has produced so far: the loop
\* position moves forward in every iteration and never passes the end of
\* the text; each next window starts CHUNK_OVERLAP characters before the
\* end of the previous one; a window that does not run to its full size
\* or to the end of the text ends just after a '.' that lies in its back
\* half; and when the call has returned, the last window ends at the end
\* of the text and every character lies in some window.
C27_Windows ==
    chunkCall.op = "chunk_text" =>
        LET w == chunkCall.windows
            t == chunkCall.text
        IN  /\ \A i \in 1..Len(w) :
                   /\ 0 <= w[i].from
                   /\ w[i].from < w[i].to
                   /\ w[i].to <= t.len
                   /\ w[i].to - w[i].from <= CHUNK_SIZE
                   /\ w[i].to # Min2(w[i].from + CHUNK_SIZE, t.len)
                      => /\ (w[i].to - 1) \in t.dots
                         /\ w[i].to - 1 > w[i].from + (CHUNK_SIZE \div 2)
            /\ \A i \in 2..Len(w) :
                   /\ w[i].from = w[i - 1].to - CHUNK_OVERLAP
                   /\ w[i].from > w[i - 1].from
            /\ w # <<>> => /\ w[1].from = 0
                           /\ chunkCall.start > w[Len(w)].from
                           /\ chunkCall.start <= t.len
            /\ chunkCall.pc = "done"
               => /\ w = chunk_text(t, CHUNK_SIZE, CHUNK_OVERLAP)
                  /\ (t.len = 0) = (w = <<>>)
                  /\ w # <<>> => w[Len(w)].to = t.len
                  /\ \A p \in 0..(t.len - 1) :
                         \E i \in 1..Len(w) : w[i].from <= p /\ p < w[i].to

\* C27: chunk_text with the indexer's constants terminates on every
\* text, and its windows are as C27_Windows says: each next window starts
\* 200 characters before the previous window's end, a window is cut at a
\* '.' only when the '.' lies in the back half of the window, the last
\* window ends at the end of the text and every character lies in some
\* window.
C27_ChunkTextTerminatesAndCovers ==
    /\ []C27_Windows
    /\ (chunkCall.op = "chunk_text") ~> (chunkCall.op = "chunk_text"
                                           /\ chunkCall.pc = "done")

\* A returned call with a window cut at a '.', and a later window.
C27_Witness ==
    /\ chunkCall.op = "chunk_text"
    /\ chunkCall.pc = "done"
    /\ Len(chunkCall.windows) >= 3
    /\ \E i \in 1..Len(chunkCall.windows) :
           /\ chunkCall.windows[i].to < chunkCall.text.len
           /\ chunkCall.windows[i].to
                  # chunkCall.windows[i].from + CHUNK_SIZE

\* The grants of an identifier whose clock reading lies in the span of
\* time_window seconds that starts at `from`.
GrantsWithin(identifier, from) ==
    {j \in DOMAIN granted[identifier] :
        /\ from <= granted[identifier][j]
        /\ granted[identifier][j] < from + time_window}

\* C28: under any interleaving of concurrent is_allowed calls on one
\* RateLimiter, each identifier is granted at most max_calls calls in any
\* span of time_window seconds (a call counts at the clock reading it
\* took under the lock; the span is [s, s + time_window)), and a call is
\* refused only when its own identifier has max_calls grants in the
\* window behind it: the calls of another identifier never use up its
\* allowance.
C28_AtMostMaxCallsPerWindow ==
    /\ \A i \in Identifiers : \A s \in 0..MaxClock :
           Cardinality(GrantsWithin(i, s)) <= max_calls
    /\ \A t \in Threads :
           (thread[t].pc = "release" /\ ~thread[t].ret)
           => Cardinality(GrantsWithin(thread[t].identifier,
                                       thread[t].now - time_window + 1))
                  >= max_calls

\* Both identifiers have used their allowance in the same window, and a
\* thread has been refused.
C28_Witness ==
    /\ \E s \in 0..MaxClock :
           \A i \in Identifiers : Cardinality(GrantsWithin(i, s)) = max_calls
    /\ \E t \in Threads : thread[t].pc = "release" /\ ~thread[t].ret

\* C29: whenever the persisted sync state records a completed sync
\* (last_sync is set), the cursor store holds a cursor for the watched
\* path, also after an initial sync whose listing failed or was cut short.
C29_SyncedStateHasCursor ==
    sync_state.last_sync # NoSyncState.last_sync => cursors # NoCursor

\* The listing or change feed of the run in progress up to the cursor c:
\* the whole snapshot for a full listing, the server's log from the stored
\* cursor to c for a change feed.
FeedUpTo(c) ==
    IF feedRun.plan.full
    THEN SnapshotEntries(feedRun.remote0)
    ELSE Tagged(SubSeq(serverLog, feedRun.cursorBefore + 1, c))

\* Every change the stored cursor stands for was handed to the sync
\* engine, as an entry of a change feed or within a full listing that was
\* handed whole.
NoChangeSkipped ==
    cursors # NoCursor =>
        \A i \in 1..cursors :
            i \in feedRun.handedIdx \/ \E f \in feedRun.fullAt : i <= f

\* C30: the stored cursor is replaced only after every entry of the
\* listing or change feed up to the new cursor was handed to the sync
\* engine; a run that stops before that (crash, listing error, exception
\* in the engine) leaves the stored cursor as it was, so that no change
\* is skipped by a cursor advance.
C30_CursorAdvancesAfterFeedHanded ==
    /\ [][cursors' # cursors
            => /\ feedRun.pc = "running"
               /\ feedRun'.last = "completed"
               /\ feedRun.handed = FeedUpTo(cursors')]_vars
    /\ []NoChangeSkipped

\* A run stopped after handing a change, and the incremental run after it
\* was handed that change again and then advanced the cursor.
C30_Witness ==
    /\ feedRun.pc = "idle"
    /\ feedRun.last = "completed"
    /\ feedRun.before \in {"crash", "exception", "listing_error"}
    /\ feedRun.again
    /\ cursors # NoCursor
    /\ cursors > 0

====
